---- MODULE Spec2Model ----
(***************************************************************************)
(* Model of the ESX-side volume service of docker-volume-vsphere:          *)
(*   esx_service/vmdk_ops.py   (lifecycle operations, device placement)    *)
(*   esx_service/volume_kv.py  (side-car metadata store)                   *)
(*                                                                         *)
(* One request handled by one service instance is one atomic action of     *)
(* Spec.  SpecConc splits disk_attach at the points where it talks to the  *)
(* hypervisor, for two service instances working on the same VM.           *)
(* SpecLoop is the service loop (handleVmciRequests): one iteration of     *)
(* the loop, from the receive to the reply, is one atomic action.          *)
(* SpecCalls applies validate_size, createVMDK, findVmByUuid and           *)
(* wait_for_tasks to arguments drawn in the initial state.                 *)
(*                                                                         *)
(* External collaborators (hypervisor, vmkfstools, mkfs, the file system)  *)
(* are modelled by their observable outcome, drawn with \E at the call     *)
(* site: exit status of a command, success or fault of a task, success or  *)
(* failure of a file write.                                                *)
(***************************************************************************)
EXTENDS Integers, Sequences, FiniteSets, TLC

VARIABLES
    image,      \* image[p]: the vmdk file p exists (os.path.isfile)
    kvfile,     \* kvfile[p]: content of the side-car metadata file of p
    ctrls,      \* ctrls[vm]: SCSI controllers of vm, in device-list order
    disks,      \* disks[vm]: virtual disks of vm
    world,      \* the VMs and the volumes that requests are about
    faults,     \* number of requests so far in which a collaborator failed
    last,       \* the request handled last and the value it returned
    inst,       \* SpecConc: the two service instances inside disk_attach
    loop,       \* SpecLoop: the service loop (handleVmciRequests)
    call        \* a function applied to drawn arguments, and its result

vars == <<image, kvfile, ctrls, disks, world, faults, last, inst, loop, call>>

-----------------------------------------------------------------------------
(* Bounds of the model *)

\* time.gmtime() returns one of 1..MaxTime
MaxTime == 1
\* number of requests of a behaviour in which a collaborator fails although
\* it could have succeeded (command exit status, task fault, file write)
MaxFaults == 1
\* number of requests the service loop receives and handles in a behaviour
MaxServed == 2
\* lengths of the two parts of the size texts that validate_size is given
MaxIntLen == 3
MaxUnitLen == 2
\* number of tasks handed to one wait_for_tasks
MaxTasks == 2

(* Program constants *)

offset_from_bus_number == 1000
max_scsi_controllers == 4
\* unit number reserved for the controller itself
ReservedUnit == 7
\* unit numbers range over 0..MaxUnit
MaxUnit == 15

-----------------------------------------------------------------------------
(* The world the service runs in *)

VMs == {"vmA", "vmB"}
VmUuid == [vmA |-> "564d-aaaa", vmB |-> "564d-bbbb"]
VmName == [vmA |-> "dockerA", vmB |-> "dockerB"]

\* canonical vmdk paths: [datastore] dockvols/Name.vmdk
Vols == {"/vmfs/volumes/ds1/dockvols/v1.vmdk",
         "/vmfs/volumes/ds1/dockvols/v2.vmdk",
         "/vmfs/volumes/vsan1/dockvols/v1.vmdk"}

\* os.path.basename(vmdk_path)
basename ==
    [p \in Vols |-> IF p = "/vmfs/volumes/ds1/dockvols/v2.vmdk"
                    THEN "v2.vmdk" ELSE "v1.vmdk"]

\* os.path.basename(os.path.realpath(os.path.dirname(vmdk_path)))
real_vol_dir == [p \in Vols |-> "dockvols"]

\* the volume name the dispatcher parsed out of the request
vol_name_of ==
    [p \in Vols |-> IF p = "/vmfs/volumes/ds1/dockvols/v2.vmdk"
                    THEN "v2" ELSE "v1"]

Min(S) == CHOOSE x \in S : \A y \in S : x <= y

\* Python's None, as a value comparable with the replies
None == [None |-> TRUE]

\* def err(string): return {u'Error': string}
err(string) == [Error |-> string]

IsErr(ret) == "Error" \in DOMAIN ret

\* Texts are sequences of their pieces.  A Python tuple of texts, where it
\* stands in the place of a text, is the sequence of its items behind the
\* mark "(tuple)"; json.dumps writes it as an array.
PyTuple(items) == <<"(tuple)">> \o items
IsText(v) == Len(v) = 0 \/ v[1] # "(tuple)"

-----------------------------------------------------------------------------
(* volume_kv.py: the side-car metadata store *)

STATUS == "status"
CREATED == "created"
CREATED_BY == "created-by"
ATTACHED_VM_NAME == "attachedVMName"
ATTACHED_VM_UUID == "attachedVMUuid"
VOL_OPTS == "volOpts"
VSAN_POLICY_NAME == "vsan-policy-name"
SIZE == "size"
DISK_ALLOCATION_FORMAT == "diskformat"
ATTACHED == "attached"
DETACHED == "detached"

\* the side-car file does not exist
NoFile == [file |-> "missing"]
\* the side-car file exists and json.loads cannot decode it (empty, partial)
Undecodable == [file |-> "undecodable"]

\* Python dictionaries are functions on their keys
EmptyDict == [k \in {} |-> None]
Put(d, k, v) == [x \in (DOMAIN d) \cup {k} |-> IF x = k THEN v ELSE d[x]]
Del(d, k) == [x \in (DOMAIN d) \ {k} |-> d[x]]

\* truth value of "not x" for x a dictionary or None
Falsy(x) == x = None \/ DOMAIN x = {}

\* outcomes of writing the side-car file:
\*   "ok"          the file holds the new text
\*   "open_fails"  open(meta_file, "w") raised: the file is as it was
\*   "write_fails" open truncated the file and fh.write raised
SaveOutcomes == {"ok", "open_fails", "write_fails"}

\* disk_ops.get_kv_name names no file to open when the side-car is missing
SaveOutcomesOn(file) == IF file = NoFile THEN {"open_fails"} ELSE SaveOutcomes

\* def load(vol_path), on the content of the side-car file
load(file) == IF file \in {NoFile, Undecodable} THEN None ELSE file

\* def save(vol_path, vol_meta): the value returned and the file afterwards
save(file, vol_meta, out) ==
    CASE out = "ok"          -> [ret |-> TRUE,  file |-> vol_meta]
      [] out = "open_fails"  -> [ret |-> FALSE, file |-> file]
      [] out = "write_fails" -> [ret |-> FALSE, file |-> Undecodable]

\* def create(vol_path, vol_meta); create_kv_ok is disk_ops.create_kv's
\* result, which leaves an empty side-car when it succeeds
kv_create(file, vol_meta, create_kv_ok, out) ==
    IF create_kv_ok THEN save(Undecodable, vol_meta, out)
    ELSE [ret |-> FALSE, file |-> file]

\* def getAll(vol_path)
getAll(file) == load(file)

\* def setAll(vol_path, vol_meta)
setAll(file, vol_meta, out) ==
    IF ~Falsy(vol_meta) THEN save(file, vol_meta, out)
    ELSE [ret |-> TRUE, file |-> file]

-----------------------------------------------------------------------------
(* The text of the side-car file.  In Spec, SpecConc and SpecLoop the file *)
(* is held as what json.loads makes of it (load, save above); here it is   *)
(* the text that save writes, a sequence of pieces: the punctuation of     *)
(* JSON, string literals, blanks and the newline.  Lengths count pieces.   *)

KV_ALIGN == 4096

Tok(t) == [t |-> t]
StringTok(v) == [t |-> "string", v |-> v]

\* json.dumps(vol_meta), the members in the order the dictionary yields
\* them; of the values of a volume record that of volOpts is a dictionary,
\* the others are strings
RECURSIVE dumps_members(_, _)
dumps_members(obj, keys) ==
    IF keys = {} THEN <<>>
    ELSE LET k == CHOOSE x \in keys : TRUE
             value == IF k = VOL_OPTS
                      THEN <<Tok("{")>>
                           \o dumps_members(obj[k], DOMAIN obj[k])
                           \o <<Tok("}")>>
                      ELSE <<StringTok(obj[k])>>
             sep == IF keys = {k} THEN <<>> ELSE <<Tok(","), Tok(" ")>>
         IN  <<StringTok(k), Tok(":"), Tok(" ")>> \o value \o sep
             \o dumps_members(obj, keys \ {k})

json_dumps(obj) == <<Tok("{")>> \o dumps_members(obj, DOMAIN obj) \o <<Tok("}")>>

\* align_str with zero bytes in place of blanks as padding: the round trip
\* (C22) has to fail on it
align_str_zero_filled(kv_str, block) ==
    LET aligned_len == ((Len(kv_str) + block - 1) \div block) * block - 1
    IN  kv_str
        \o [i \in 1..(aligned_len - Len(kv_str)) |-> Tok("\\0")]
        \o <<Tok("\n")>>

\* def align_str(kv_str, block): '{:<{width}}\n'.format(kv_str,
\* width=aligned_len) pads with blanks up to aligned_len and cuts nothing
align_str(kv_str, block) ==
    LET aligned_len == ((Len(kv_str) + block - 1) \div block) * block - 1
    IN  kv_str
        \o [i \in 1..(aligned_len - Len(kv_str)) |-> Tok(" ")]
        \o <<Tok("\n")>>

\* json.loads: the position of the first piece from i on that is not
\* white space
skip_ws(s, i) ==
    Min({j \in i..Len(s) : s[j].t \notin {" ", "\n"}} \cup {Len(s) + 1})

NoParse == [ok |-> FALSE]

RECURSIVE parse_value(_, _)
RECURSIVE parse_members(_, _, _)

\* the members of an object from position i on, added to obj
parse_members(s, i, obj) ==
    LET k == skip_ws(s, i)
        c == skip_ws(s, k + 1)
        v == parse_value(s, c + 1)
        e == skip_ws(s, v.pos)
    IN  IF k > Len(s) \/ s[k].t # "string" THEN NoParse
        ELSE IF c > Len(s) \/ s[c].t # ":" THEN NoParse
        ELSE IF ~v.ok \/ e > Len(s) THEN NoParse
        ELSE IF s[e].t = "}"
        THEN [ok |-> TRUE, val |-> Put(obj, s[k].v, v.val), pos |-> e + 1]
        ELSE IF s[e].t = ","
        THEN parse_members(s, e + 1, Put(obj, s[k].v, v.val))
        ELSE NoParse

\* the value that starts at position i: a string or an object
parse_value(s, i) ==
    LET j == skip_ws(s, i)
        k == skip_ws(s, j + 1)
    IN  IF j > Len(s) THEN NoParse
        ELSE IF s[j].t = "string"
        THEN [ok |-> TRUE, val |-> s[j].v, pos |-> j + 1]
        ELSE IF s[j].t # "{" THEN NoParse
        ELSE IF k <= Len(s) /\ s[k].t = "}"
        THEN [ok |-> TRUE, val |-> EmptyDict, pos |-> k + 1]
        ELSE parse_members(s, j + 1, EmptyDict)

\* json.loads(kv_str): the value, or ValueError when the text is not one
\* JSON value with white space around it
json_loads(kv_str) ==
    LET v == parse_value(kv_str, 1)
    IN  IF v.ok /\ skip_ws(kv_str, v.pos) > Len(kv_str) THEN v.val
        ELSE [Exception |-> "ValueError"]

\* def load(vol_path), on the text of the side-car file
load_text(file) ==
    IF file = NoFile THEN None
    ELSE IF json_loads(file.text) = [Exception |-> "ValueError"] THEN None
    ELSE json_loads(file.text)

\* def save(vol_path, vol_meta), on the text of the side-car file: the
\* value returned and the file afterwards.  open(meta_file, "w") empties
\* the file; when the write fails after that, the file holds the first
\* cut pieces of the new text
save_text(file, vol_meta, out, cut) ==
    LET kv_str == align_str(json_dumps(vol_meta), KV_ALIGN)
    IN  CASE out = "ok" -> [ret |-> TRUE, file |-> [text |-> kv_str]]
          [] out = "open_fails" -> [ret |-> FALSE, file |-> file]
          [] out = "write_fails" ->
               [ret |-> FALSE, file |-> [text |-> SubSeq(kv_str, 1, cut)]]

-----------------------------------------------------------------------------
(* Strings that the code inspects are sequences of one-character strings *)

Digits == {"0", "1", "2", "3", "4", "5", "6", "7", "8", "9"}
LowerOf == [K |-> "k", M |-> "m", G |-> "g", T |-> "t", B |-> "b"]
lower_char(c) == IF c \in DOMAIN LowerOf THEN LowerOf[c] ELSE c

\* str.lower()
lower(str) == [i \in 1..Len(str) |-> lower_char(str[i])]
\* str.endswith(suffix)
endswith(str, suffix) ==
    /\ Len(str) >= Len(suffix)
    /\ SubSeq(str, Len(str) - Len(suffix) + 1, Len(str)) = suffix
\* str.isdigit(): non-empty and all characters are digits
isdigit(str) == Len(str) > 0 /\ \A i \in 1..Len(str) : str[i] \in Digits
\* str[:-2]
drop_last2(str) == IF Len(str) <= 2 THEN <<>> ELSE SubSeq(str, 1, Len(str) - 2)

-----------------------------------------------------------------------------
(* Validation of the create options *)

VALID_ALLOCATION_FORMATS == {"zeroedthick", "thin", "eagerzeroedthick"}

\* vsan_info.is_on_vsan(vmdk_path)
is_on_vsan(vmdk_path) == vmdk_path = "/vmfs/volumes/vsan1/dockvols/v1.vmdk"

\* vsan_policy.policy_exists(policy_name)
policy_exists(policy_name) == policy_name \in {"gold"}

\* class ValidationError(Exception)
ValidationError(msg) == [msg |-> msg]

\* def validate_size(size): None, or the ValidationError raised
validate_size(size) ==
    IF \/ ~(\E u \in {<<"k", "b">>, <<"m", "b">>, <<"g", "b">>, <<"t", "b">>} :
              endswith(lower(size), u))
       \/ ~isdigit(drop_last2(size))
    THEN ValidationError(<<"Invalid format for size.">>)
    ELSE None

\* def validate_vsan_policy_name(policy_name, vmdk_path)
validate_vsan_policy_name(policy_name, vmdk_path) ==
    IF ~is_on_vsan(vmdk_path)
    THEN ValidationError(<<"Cannot use a VSAN policy on a non-VSAN datastore">>)
    ELSE IF ~policy_exists(policy_name)
    THEN ValidationError(<<"Policy ", policy_name, " does not exist">>)
    ELSE None

\* def validate_disk_allocation_format(format)
validate_disk_allocation_format(format) ==
    IF format \notin VALID_ALLOCATION_FORMATS
    THEN ValidationError(<<"Disk Allocation Format '", format,
                           "' does not exist.">>)
    ELSE None

\* def validate_opts(opts, vmdk_path): None, or the ValidationError raised
\* by the first check that fails
validate_opts(opts, vmdk_path) ==
    LET valid_opts == {SIZE, VSAN_POLICY_NAME, DISK_ALLOCATION_FORMAT}
        invalid == (DOMAIN opts) \ valid_opts
        s == IF SIZE \in DOMAIN opts THEN validate_size(opts[SIZE]) ELSE None
        p == IF VSAN_POLICY_NAME \in DOMAIN opts
             THEN validate_vsan_policy_name(opts[VSAN_POLICY_NAME], vmdk_path)
             ELSE None
        f == IF DISK_ALLOCATION_FORMAT \in DOMAIN opts
             THEN validate_disk_allocation_format(opts[DISK_ALLOCATION_FORMAT])
             ELSE None
    IN  IF Cardinality(invalid) # 0
        THEN ValidationError(<<"Invalid options: ", "<keys>">>)
        ELSE IF s # None THEN s
        ELSE IF p # None THEN p
        ELSE f

-----------------------------------------------------------------------------
(* create, remove, get *)

\* exit status of an external command (RunCommand)
ExitCodes == {0, 1}

\* removeVMDK with the exit status of vmkfstools -U dropped: the property
\* of remove (C9) has to fail on it
removeVMDK_status_dropped(vmdk_path, img, file, rc) ==
    IF rc # 0
    THEN [ret |-> None, image |-> img, file |-> file]
    ELSE [ret |-> None, image |-> FALSE, file |-> NoFile]

\* def removeVMDK(vmdk_path): the value returned, and the image and its
\* side-car afterwards; vmkfstools -U deletes the disk with its side-cars
removeVMDK(vmdk_path, img, file, rc) ==
    IF rc # 0
    THEN [ret |-> err(<<"Failed to remove ", vmdk_path, ". ", "<stderr>">>),
          image |-> img, file |-> file]
    ELSE [ret |-> None, image |-> FALSE, file |-> NoFile]

\* def getVMDK(vmdk_path, vol_name)
getVMDK(vmdk_path, vol_name, img) ==
    IF ~img
    THEN err(<<"Volume ", vol_name, " not found (file: ", vmdk_path, ")">>)
    ELSE None

\* def create_kv_store(vm_name, vmdk_path, opts)
create_kv_store(vm_name, file, opts, now, create_kv_ok, out) ==
    LET vol_meta == (STATUS :> DETACHED) @@ (VOL_OPTS :> opts)
                    @@ (CREATED :> now) @@ (CREATED_BY :> vm_name)
    IN  kv_create(file, vol_meta, create_kv_ok, out)

\* def getVMDKBacking(vmdk_path): the backing file, or None
\*   flat:   the -flat.vmdk file exists
\*   uuid:   the descriptor names a VSAN object
\*   rc:     exit status of objtool open
\*   fpath:  /vmfs/devices/vsan/<uuid> is a file
getVMDKBacking(vmdk_path, flat, uuid, rc, fpath) ==
    IF flat THEN [backing |-> "flat"]
    ELSE IF uuid /\ rc = 0 /\ fpath THEN [backing |-> "vsan"]
    ELSE None

\* def formatVmdk(vmdk_path, vol_name)
formatVmdk(vmdk_path, vol_name, img, file, backing, mkfs_rc, delete_rc) ==
    IF backing = None
    THEN [ret |-> err(<<"Failed to format ", vmdk_path, ".">>),
          image |-> img, file |-> file]
    ELSE IF mkfs_rc # 0
    THEN LET rm == removeVMDK(vmdk_path, img, file, delete_rc)
         IN  IF rm.ret = None
             THEN [ret |-> err(<<"Failed to format ", vmdk_path, ".">>),
                   image |-> rm.image, file |-> rm.file]
             ELSE [ret |-> err(<<"Unable to format ", vmdk_path,
                                 " and unable to delete volume.">>),
                   image |-> rm.image, file |-> rm.file]
    ELSE [ret |-> None, image |-> img, file |-> file]

\* createVMDK without the os.path.isfile test of line 132: the property of
\* a repeated create (C6) has to fail on it
createVMDK_unguarded(vmdk_path, vm_name, vol_name, opts, img, file, now, create_rc, create_kv_ok, out, backing, mkfs_rc, delete_rc) ==
    IF validate_opts(opts, vmdk_path) # None
    THEN [ret |-> err(validate_opts(opts, vmdk_path).msg),
          image |-> img, file |-> file]
    ELSE IF create_rc # 0
    THEN [ret |-> err(<<"Failed to create ", vmdk_path, ". ", "<stderr>">>),
          image |-> img, file |-> file]
    ELSE LET kvr == create_kv_store(vm_name, file, opts, now, create_kv_ok, out)
         IN  IF ~kvr.ret
             THEN LET rm == removeVMDK(vmdk_path, TRUE, kvr.file, delete_rc)
                  IN  [ret |-> err(<<"Failed to create metadata kv store for ",
                                     vmdk_path>>),
                       image |-> rm.image, file |-> rm.file]
             ELSE formatVmdk(vmdk_path, vol_name, TRUE, kvr.file,
                             backing, mkfs_rc, delete_rc)

\* def createVMDK(vmdk_path, vm_name, vol_name, opts)
\*   create_rc: exit status of vmkfstools -c; a failed run leaves no image
createVMDK(vmdk_path, vm_name, vol_name, opts, img, file, now, create_rc, create_kv_ok, out, backing, mkfs_rc, delete_rc) ==
    IF img
    THEN [ret |-> err(<<"File ", vmdk_path, " already exists">>),
          image |-> img, file |-> file]
    ELSE IF validate_opts(opts, vmdk_path) # None
    THEN [ret |-> err(validate_opts(opts, vmdk_path).msg),
          image |-> img, file |-> file]
    ELSE IF create_rc # 0
    THEN [ret |-> err(<<"Failed to create ", vmdk_path, ". ", "<stderr>">>),
          image |-> img, file |-> file]
    ELSE LET kvr == create_kv_store(vm_name, file, opts, now, create_kv_ok, out)
         IN  IF ~kvr.ret
             THEN LET rm == removeVMDK(vmdk_path, TRUE, kvr.file, delete_rc)
                  IN  [ret |-> err(<<"Failed to create metadata kv store for ",
                                     vmdk_path>>),
                       image |-> rm.image, file |-> rm.file]
             ELSE formatVmdk(vmdk_path, vol_name, TRUE, kvr.file,
                             backing, mkfs_rc, delete_rc)

-----------------------------------------------------------------------------
(* Virtual hardware: vm.config.hardware.device *)

\* a SCSI controller; vSphere keys them 1000 + busNumber
Controller(type, bus) ==
    [type |-> type, key |-> offset_from_bus_number + bus, busNumber |-> bus]

\* a virtual disk
Disk(controller_key, unit, backing) ==
    [controllerKey |-> controller_key, unitNumber |-> unit, backing |-> backing]

\* a disk of the VM itself, not a docker volume
OwnBacking == "/vmfs/volumes/ds1/vm/vm.vmdk"

\* d.backing.fileName.split(" ")[1]: directory/file below the datastore
backing_disk(d) ==
    IF d.backing \in Vols THEN <<real_vol_dir[d.backing], basename[d.backing]>>
    ELSE <<"vm", "vm.vmdk">>

\* os.path.join(real_vol_dir, os.path.basename(vmdk_path))
virtual_disk(vmdk_path) == <<real_vol_dir[vmdk_path], basename[vmdk_path]>>

\* def findDeviceByPath(vmdk_path, vm): the first disk of the device list
\* whose backing matches, or None
findDeviceByPath(vmdk_path, devices) ==
    LET match == {i \in 1..Len(devices) :
                     virtual_disk(vmdk_path) = backing_disk(devices[i])}
    IN  IF match = {} THEN None ELSE devices[Min(match)]

\* def busInfo(unit_number, bus_number)
busInfo(unit_number, bus_number) ==
    [Unit |-> ToString(unit_number), Bus |-> ToString(bus_number)]

\* set.pop() on a set of small non-negative integers: CPython stores them
\* in increasing order and pops the first
set_pop(S) == Min(S)

-----------------------------------------------------------------------------
(* Attach and detach *)

\* def setStatusAttached(vmdk_path, vm): the side-car afterwards; the
\* result of kv.setAll is only logged
setStatusAttached(file, vm, out) ==
    LET m0 == IF Falsy(getAll(file)) THEN EmptyDict ELSE getAll(file)
        m1 == Put(m0, STATUS, ATTACHED)
        m2 == Put(m1, ATTACHED_VM_UUID, VmUuid[vm])
        m3 == Put(m2, ATTACHED_VM_NAME, VmName[vm])
    IN  setAll(file, m3, out).file

\* def setStatusDetached(vmdk_path): the two del statements share one
\* try block, so a missing uuid key leaves the name key in place
setStatusDetached(file, out) ==
    LET m0 == IF Falsy(getAll(file)) THEN EmptyDict ELSE getAll(file)
        m1 == Put(m0, STATUS, DETACHED)
        m2 == IF ATTACHED_VM_UUID \notin DOMAIN m1 THEN m1
              ELSE IF ATTACHED_VM_NAME \notin DOMAIN m1
              THEN Del(m1, ATTACHED_VM_UUID)
              ELSE Del(Del(m1, ATTACHED_VM_UUID), ATTACHED_VM_NAME)
    IN  setAll(file, m2, out).file

\* def getStatusAttached(vmdk_path): (attached, uuid); uuid "None" is None
getStatusAttached(file) ==
    LET vol_meta == getAll(file)
    IN  IF Falsy(vol_meta) \/ STATUS \notin DOMAIN vol_meta
        THEN [attached |-> FALSE, uuid |-> "None"]
        ELSE [attached |-> vol_meta[STATUS] = ATTACHED,
              uuid |-> IF ATTACHED_VM_UUID \in DOMAIN vol_meta
                       THEN vol_meta[ATTACHED_VM_UUID] ELSE "None"]

\* outcomes of wait_for_tasks on one reconfiguration task
TaskOutcomes == {"success", "error"}

\* the controller choice with the bus taken from the number of controllers
\* (len(controllers) in place of avail.pop() at line 630): the placement
\* property (C26) has to fail
attach_controller_by_count(controllers) ==
    LET pvsci == SelectSeq(controllers,
                           LAMBDA d : d.type = "ParaVirtualSCSIController")
        key   == Len(controllers)
    IN  IF Len(pvsci) > 0
        THEN [ret |-> None, add |-> FALSE, controller_key |-> pvsci[1].key,
              bus_number |-> pvsci[1].busNumber]
        ELSE IF Len(controllers) >= max_scsi_controllers
        THEN [ret |-> err(<<"Failed to place PVSCI adapter - out of bus slots">>),
              add |-> FALSE, controller_key |-> 0, bus_number |-> 0]
        ELSE [ret |-> None, add |-> TRUE,
              controller_key |-> key + offset_from_bus_number,
              bus_number |-> key]

\* disk_attach, lines 596-649: the controller the disk goes to.
\*   add:  a controller has to be added first
\*   ret:  the capacity error, when there is no room for a controller
attach_controller(controllers) ==
    LET pvsci == SelectSeq(controllers,
                           LAMBDA d : d.type = "ParaVirtualSCSIController")
        taken == {controllers[i].busNumber : i \in 1..Len(controllers)}
        avail == (0..(max_scsi_controllers - 1)) \ taken
        key   == set_pop(avail)
    IN  IF Len(pvsci) > 0
        THEN [ret |-> None, add |-> FALSE, controller_key |-> pvsci[1].key,
              bus_number |-> pvsci[1].busNumber]
        ELSE IF Len(controllers) >= max_scsi_controllers
        THEN [ret |-> err(<<"Failed to place PVSCI adapter - out of bus slots">>),
              add |-> FALSE, controller_key |-> 0, bus_number |-> 0]
        ELSE [ret |-> None, add |-> TRUE,
              controller_key |-> key + offset_from_bus_number,
              bus_number |-> key]

\* the unit search without the reservation of unit 7 (range(0, 16) in place
\* of the two ranges of line 669): the hardware property (C4) has to fail
attach_slot_unreserved(devices, controller_key) ==
    LET taken == {devices[i].unitNumber :
                     i \in {j \in 1..Len(devices) :
                               devices[j].controllerKey = controller_key}}
        availSlots == (0..MaxUnit) \ taken
    IN  IF Cardinality(availSlots) = 0 THEN -1 ELSE set_pop(availSlots)

\* the unit search without the subtraction of the units in use (line 669):
\* the property of the choice (C5) has to fail
attach_slot_untaken(devices, controller_key) ==
    LET availSlots == (0..(ReservedUnit - 1)) \cup ((ReservedUnit + 1)..MaxUnit)
    IN  IF Cardinality(availSlots) = 0 THEN -1 ELSE set_pop(availSlots)

\* disk_attach, lines 662-677: the unit number on the controller, or -1
\* when the controller is full.  disk_slot is None or 0 at this point and
\* "not disk_slot" holds for both, so the search always runs.
attach_slot(devices, controller_key) ==
    LET taken == {devices[i].unitNumber :
                     i \in {j \in 1..Len(devices) :
                               devices[j].controllerKey = controller_key}}
        availSlots == ((0..(ReservedUnit - 1)) \cup ((ReservedUnit + 1)..MaxUnit))
                      \ taken
    IN  IF Cardinality(availSlots) = 0 THEN -1 ELSE set_pop(availSlots)

\* disk_attach, lines 698-708: the error returned when the disk task faults
attach_fault(vmdk_path, vm, file) ==
    LET st == getStatusAttached(file)
    IN  IF st.attached /\ st.uuid # VmUuid[vm]
        THEN err(<<"<fault>", " disk ", vmdk_path, " already attached to VM=",
                   st.uuid>>)
        ELSE err(<<"<fault>">>)

\* disk_attach, lines 652-713: after the controller is there.
\*   devices: the device list read at line 601
\*   fresh:   the device list findDeviceByPath reads at line 653
attach_disk(vmdk_path, vm, controllers, devices, fresh, file, controller_key, bus_number, disk_task, out) ==
    LET device == findDeviceByPath(vmdk_path, fresh)
        disk_slot == attach_slot(devices, controller_key)
    IN  IF device # None
        THEN [ret |-> busInfo(device.unitNumber,
                              device.controllerKey - offset_from_bus_number),
              ctrls |-> controllers, disks |-> fresh,
              file |-> setStatusAttached(file, vm, out), reqs |-> <<>>]
        ELSE IF disk_slot = -1
        THEN [ret |-> err(<<"Failed to place new disk - out of disk slots">>),
              ctrls |-> controllers, disks |-> fresh, file |-> file,
              reqs |-> <<>>]
        ELSE IF disk_task = "error"
        THEN [ret |-> attach_fault(vmdk_path, vm, file),
              ctrls |-> controllers, disks |-> fresh, file |-> file,
              reqs |-> <<Disk(controller_key, disk_slot, vmdk_path)>>]
        ELSE [ret |-> busInfo(disk_slot, bus_number),
              ctrls |-> controllers,
              disks |-> Append(fresh, Disk(controller_key, disk_slot, vmdk_path)),
              file |-> setStatusAttached(file, vm, out),
              reqs |-> <<Disk(controller_key, disk_slot, vmdk_path)>>]

\* the result res of the rest of disk_attach, behind the requests first
\* that were made before it
After(first, res) == [res EXCEPT !.reqs = first \o @]

\* def disk_attach(vmdk_path, vm), handled without interleaving
\*   reqs: the devices whose addition was requested with ReconfigVM_Task,
\*   in the order of the requests
disk_attach(vmdk_path, vm, controllers, devices, file, ctrl_task, disk_task, out) ==
    LET c == attach_controller(controllers)
        added == Controller("ParaVirtualSCSIController", c.bus_number)
    IN  IF c.ret # None
        THEN [ret |-> c.ret, ctrls |-> controllers, disks |-> devices,
              file |-> file, reqs |-> <<>>]
        ELSE IF c.add /\ ctrl_task = "error"
        THEN [ret |-> err(PyTuple(<<"Failed to add PVSCSI Controller: %s",
                                    "<fault>">>)),
              ctrls |-> controllers, disks |-> devices, file |-> file,
              reqs |-> <<added>>]
        ELSE After(IF c.add THEN <<added>> ELSE <<>>,
                   attach_disk(vmdk_path, vm,
                       IF c.add THEN Append(controllers, added)
                       ELSE controllers,
                       devices, devices, file, c.controller_key, c.bus_number,
                       disk_task, out))

\* the sequence without its i-th element
RemoveAt(seq, i) == SubSeq(seq, 1, i - 1) \o SubSeq(seq, i + 1, Len(seq))

\* def disk_detach(vmdk_path, vm)
\*   handler: the except clause names vim.Fault.VimFault; TRUE when that
\*   name resolves and the fault is caught, FALSE when evaluating it raises
disk_detach(vmdk_path, vm, devices, file, task, handler, out) ==
    LET match == {i \in 1..Len(devices) :
                     virtual_disk(vmdk_path) = backing_disk(devices[i])}
        device == findDeviceByPath(vmdk_path, devices)
    IN  IF device = None
        THEN [ret |-> err(<<"*** Detach failed: disk=", vmdk_path,
                            " not found. VM=", VmUuid[vm]>>),
              disks |-> devices, file |-> file]
        ELSE IF task = "error"
        THEN [ret |-> IF handler
                      THEN err(<<"Failed to detach ", vmdk_path, ": ", "<fault>">>)
                      ELSE [Exception |-> "AttributeError"],
              disks |-> devices, file |-> file]
        ELSE [ret |-> None,
              disks |-> RemoveAt(devices, Min(match)),
              file |-> setStatusDetached(file, out)]

-----------------------------------------------------------------------------
(* Initial states *)

PV == "ParaVirtualSCSIController"
LSI == "VirtualLsiLogicController"

\* own disks of a VM on the units of one controller
OwnDisks(controller_key, units) ==
    [i \in 1..Len(units) |-> Disk(controller_key, units[i], OwnBacking)]

\* hardware inventories a VM can start with
Inventories ==
    { \* no SCSI controller at all
      [ctrls |-> <<>>, disks |-> <<>>],
      \* one paravirtual controller, units 0..5 in use
      [ctrls |-> <<Controller(PV, 0)>>,
       disks |-> OwnDisks(1000, <<0, 1, 2, 3, 4, 5>>)],
      \* no paravirtual controller, buses 0 and 2 in use
      [ctrls |-> <<Controller(LSI, 0), Controller(LSI, 2)>>,
       disks |-> OwnDisks(1000, <<0>>)],
      \* four controllers, none paravirtual
      [ctrls |-> <<Controller(LSI, 0), Controller(LSI, 1),
                   Controller(LSI, 2), Controller(LSI, 3)>>,
       disks |-> OwnDisks(1000, <<0>>)],
      \* two paravirtual controllers, the first of the list on bus 1
      \* with one unit left
      [ctrls |-> <<Controller(LSI, 0), Controller(PV, 1), Controller(PV, 2)>>,
       disks |-> OwnDisks(1001, <<0, 1, 2, 3, 4, 5, 6, 8, 9, 10, 11, 12, 13, 14>>)] }

\* the VMs that send requests and the volumes they name: one VM with two
\* volumes of different names or of the same name on two datastores, or
\* two VMs with one volume
Worlds ==
    { [vms |-> {"vmA"}, vols |-> {"/vmfs/volumes/ds1/dockvols/v1.vmdk",
                                  "/vmfs/volumes/ds1/dockvols/v2.vmdk"}],
      [vms |-> {"vmA"}, vols |-> {"/vmfs/volumes/ds1/dockvols/v1.vmdk",
                                  "/vmfs/volumes/vsan1/dockvols/v1.vmdk"}],
      [vms |-> VMs, vols |-> {"/vmfs/volumes/ds1/dockvols/v1.vmdk"}] }

\* the options of the create requests
OptsChoices ==
    { SIZE :> <<"1", "g", "b">>,
      SIZE :> <<"1", "0", "0">> }

\* the values time.asctime(time.gmtime()) can have
Times == 1..MaxTime

NoRequest == [cmd |-> "none", vol |-> "none", vm |-> "none", ret |-> None]

Idle == [i \in {1, 2} |-> [pc |-> "idle"]]

\* the service loop is not part of the behaviour
NoLoop == [pc |-> "none"]

\* no function is being applied
NoCall == [fn |-> "none"]

Init ==
    /\ image = [p \in Vols |-> FALSE]
    /\ kvfile = [p \in Vols |-> NoFile]
    /\ world \in Worlds
    /\ \E inv \in [VMs -> Inventories] :
          /\ \A vm \in VMs \ world.vms : inv[vm] = [ctrls |-> <<>>, disks |-> <<>>]
          /\ ctrls = [vm \in VMs |-> inv[vm].ctrls]
          /\ disks = [vm \in VMs |-> inv[vm].disks]
    /\ faults = 0
    /\ last = NoRequest
    /\ inst = Idle
    /\ loop = NoLoop
    /\ call = NoCall

-----------------------------------------------------------------------------
(* The environment *)

\* vm has a disk backed by the image p
HasDisk(vm, p) == \E i \in 1..Len(disks[vm]) : disks[vm][i].backing = p

\* A running VM holds the lock of the images of its disks, a powered-off
\* VM does not.  The VM that sends a request is running; any other VM may
\* be running or powered off.

\* vmkfstools -U, run for a request of vm: fails on a missing image and on
\* an image locked by vm; otherwise it can succeed (also on the image of a
\* disk of another VM, when that VM is powered off) or fail
DeleteCodes(vm, p) == IF ~image[p] \/ HasDisk(vm, p) THEN {1} ELSE ExitCodes

\* adding a disk faults when its image is missing; otherwise the task can
\* succeed (also when the image is the backing of a disk of another VM,
\* which is then powered off) or fault
DiskTaskOutcomes(img) == IF ~img THEN {"error"} ELSE TaskOutcomes

\* the outcomes a step draws when it gets as far as using them
Drawn(used, S, default) == IF used THEN S ELSE {default}

\* 1 when one of the outcomes drawn is a failure that was not forced
Failures(fs) == IF TRUE \in fs THEN 1 ELSE 0

-----------------------------------------------------------------------------
(* The requests, as executeRequest dispatches them (lines 475-484) *)

Request(cmd, vm, p, ret) == [cmd |-> cmd, vol |-> p, vm |-> vm, ret |-> ret]

\* the backing files getVMDKBacking can come up with
Backings(p) ==
    {getVMDKBacking(p, flat, uuid, rc, fpath) :
        flat \in BOOLEAN, uuid \in BOOLEAN, rc \in ExitCodes, fpath \in BOOLEAN}

Create(vm, p) ==
    \E opts \in OptsChoices, now \in Times :
    \E create_rc \in Drawn(~image[p] /\ validate_opts(opts, p) = None,
                           ExitCodes, 0) :
    \E create_kv_ok \in Drawn(~image[p] /\ validate_opts(opts, p) = None
                              /\ create_rc = 0, BOOLEAN, TRUE) :
    \E out \in Drawn(~image[p] /\ validate_opts(opts, p) = None
                     /\ create_rc = 0 /\ create_kv_ok, SaveOutcomes, "ok") :
    \E backing \in Drawn(~image[p] /\ validate_opts(opts, p) = None
                         /\ create_rc = 0 /\ create_kv_ok /\ out = "ok",
                         Backings(p), [backing |-> "flat"]) :
    \E mkfs_rc \in Drawn(~image[p] /\ validate_opts(opts, p) = None
                         /\ create_rc = 0 /\ create_kv_ok /\ out = "ok"
                         /\ backing # None, ExitCodes, 0) :
    \E delete_rc \in Drawn(~image[p] /\ validate_opts(opts, p) = None
                           /\ create_rc = 0
                           /\ (~create_kv_ok \/ out # "ok" \/ mkfs_rc # 0),
                           ExitCodes, 0) :
       LET r == createVMDK(p, VmName[vm], vol_name_of[p], opts,
                           image[p], kvfile[p], now, create_rc,
                           create_kv_ok, out, backing, mkfs_rc, delete_rc)
           f == Failures({create_rc # 0, ~create_kv_ok, out # "ok",
                          backing = None, mkfs_rc # 0, delete_rc # 0})
       IN  /\ faults + f <= MaxFaults
           /\ faults' = faults + f
           /\ image' = [image EXCEPT ![p] = r.image]
           /\ kvfile' = [kvfile EXCEPT ![p] = r.file]
           /\ last' = Request("create", vm, p, r.ret)
           /\ UNCHANGED <<ctrls, disks, world, inst, loop, call>>

Get(vm, p) ==
    /\ last' = Request("get", vm, p, getVMDK(p, vol_name_of[p], image[p]))
    /\ UNCHANGED <<image, kvfile, ctrls, disks, world, faults, inst, loop, call>>

Remove(vm, p) ==
    \E rc \in DeleteCodes(vm, p) :
       LET r == removeVMDK(p, image[p], kvfile[p], rc)
           f == Failures({0 \in DeleteCodes(vm, p) /\ rc # 0})
       IN  /\ faults + f <= MaxFaults
           /\ faults' = faults + f
           /\ image' = [image EXCEPT ![p] = r.image]
           /\ kvfile' = [kvfile EXCEPT ![p] = r.file]
           /\ last' = Request("remove", vm, p, r.ret)
           /\ UNCHANGED <<ctrls, disks, world, inst, loop, call>>

\* def attachVMDK(vmdk_path, vm_uuid)
Attach(vm, p) ==
    LET c == attach_controller(ctrls[vm])
        found == findDeviceByPath(p, disks[vm]) # None
    IN
    \E ctrl_task \in Drawn(c.ret = None /\ c.add, TaskOutcomes, "success") :
    \E disk_task \in Drawn(c.ret = None /\ ctrl_task = "success" /\ ~found
                           /\ attach_slot(disks[vm], c.controller_key) # -1,
                           DiskTaskOutcomes(image[p]), "success") :
    \E out \in Drawn(c.ret = None /\ ctrl_task = "success"
                     /\ (found \/ (disk_task = "success"
                         /\ attach_slot(disks[vm], c.controller_key) # -1)),
                     SaveOutcomesOn(kvfile[p]), "ok") :
       LET r == disk_attach(p, vm, ctrls[vm], disks[vm], kvfile[p],
                            ctrl_task, disk_task, out)
           f == Failures({ctrl_task = "error", image[p] /\ disk_task = "error",
                          kvfile[p] # NoFile /\ out # "ok"})
       IN  /\ faults + f <= MaxFaults
           /\ faults' = faults + f
           /\ ctrls' = [ctrls EXCEPT ![vm] = r.ctrls]
           /\ disks' = [disks EXCEPT ![vm] = r.disks]
           /\ kvfile' = [kvfile EXCEPT ![p] = r.file]
           /\ last' = Request("attach", vm, p, r.ret)
           /\ UNCHANGED <<image, world, inst, loop, call>>

\* def detachVMDK(vmdk_path, vm_uuid)
Detach(vm, p) ==
    LET found == findDeviceByPath(p, disks[vm]) # None
    IN
    \E task \in Drawn(found, TaskOutcomes, "success") :
    \E handler \in Drawn(found /\ task = "error", BOOLEAN, TRUE) :
    \E out \in Drawn(found /\ task = "success",
                     SaveOutcomesOn(kvfile[p]), "ok") :
       LET r == disk_detach(p, vm, disks[vm], kvfile[p], task, handler, out)
           f == Failures({task = "error", kvfile[p] # NoFile /\ out # "ok"})
       IN  /\ faults + f <= MaxFaults
           /\ faults' = faults + f
           /\ disks' = [disks EXCEPT ![vm] = r.disks]
           /\ kvfile' = [kvfile EXCEPT ![p] = r.file]
           /\ last' = Request("detach", vm, p, r.ret)
           /\ UNCHANGED <<image, ctrls, world, inst, loop, call>>

Next ==
    \/ \E vm \in world.vms, p \in world.vols : Create(vm, p)
    \/ \E vm \in world.vms, p \in world.vols : Get(vm, p)
    \/ \E vm \in world.vms, p \in world.vols : Remove(vm, p)
    \/ \E vm \in world.vms, p \in world.vols : Attach(vm, p)
    \/ \E vm \in world.vms, p \in world.vols : Detach(vm, p)

Spec == Init /\ [][Next]_vars

-----------------------------------------------------------------------------
(* Two service instances inside disk_attach for the same VM.  Each one is  *)
(* a thread of its own with its own channel; nothing orders their calls to *)
(* the hypervisor.  An instance reads the device list (line 601), adds a   *)
(* controller when it has to (646), looks for the disk and picks a unit    *)
(* (653-677), then has the disk added (699) and writes the metadata (710). *)

Instances == {1, 2}
ConcVM == "vmA"
ConcVol == <<"/vmfs/volumes/ds1/dockvols/v1.vmdk",
             "/vmfs/volumes/ds1/dockvols/v2.vmdk">>

\* both volumes exist and are detached
InitConc ==
    /\ image = [p \in Vols |-> p \in {ConcVol[1], ConcVol[2]}]
    /\ kvfile = [p \in Vols |->
                   IF p \in {ConcVol[1], ConcVol[2]}
                   THEN (STATUS :> DETACHED) @@ (VOL_OPTS :> EmptyDict)
                        @@ (CREATED :> 1) @@ (CREATED_BY :> VmName[ConcVM])
                   ELSE NoFile]
    /\ world = [vms |-> {ConcVM}, vols |-> {ConcVol[1], ConcVol[2]}]
    /\ \E inv \in Inventories :
          /\ ctrls = [vm \in VMs |-> IF vm = ConcVM THEN inv.ctrls ELSE <<>>]
          /\ disks = [vm \in VMs |-> IF vm = ConcVM THEN inv.disks ELSE <<>>]
    /\ faults = 0
    /\ last = NoRequest
    /\ inst = Idle
    /\ loop = NoLoop
    /\ call = NoCall

Finish(i, ret) ==
    /\ inst' = [inst EXCEPT ![i] = [@ EXCEPT !.pc = "done", !.ret = ret]]
    /\ last' = Request("attach", ConcVM, ConcVol[i], ret)

\* lines 601-633: read the device list and select the controller
ReadDevices(i) ==
    /\ inst[i].pc = "idle"
    /\ LET c == attach_controller(ctrls[ConcVM])
       IN  /\ inst' = [inst EXCEPT ![i] =
                         [pc |-> IF c.ret # None THEN "done"
                                 ELSE IF c.add THEN "add_controller"
                                 ELSE "find",
                          devices |-> disks[ConcVM],
                          controller_key |-> c.controller_key,
                          bus_number |-> c.bus_number,
                          disk_slot |-> -1,
                          ret |-> c.ret]]
           /\ last' = IF c.ret # None
                      THEN Request("attach", ConcVM, ConcVol[i], c.ret)
                      ELSE last
    /\ UNCHANGED <<image, kvfile, ctrls, disks, world, faults, loop, call>>

\* lines 634-649: have the controller added
AddController(i) ==
    /\ inst[i].pc = "add_controller"
    /\ \E ctrl_task \in TaskOutcomes :
          IF ctrl_task = "error"
          THEN /\ Finish(i, err(PyTuple(<<"Failed to add PVSCSI Controller: %s",
                                          "<fault>">>)))
               /\ UNCHANGED ctrls
          ELSE /\ ctrls' = [ctrls EXCEPT ![ConcVM] =
                              Append(@, Controller(PV, inst[i].bus_number))]
               /\ inst' = [inst EXCEPT ![i].pc = "find"]
               /\ UNCHANGED last
    /\ UNCHANGED <<image, kvfile, disks, world, faults, loop, call>>

\* lines 652-677: already attached, or pick the unit number
FindAndChoose(i) ==
    /\ inst[i].pc = "find"
    /\ LET p == ConcVol[i]
           device == findDeviceByPath(p, disks[ConcVM])
           disk_slot == attach_slot(inst[i].devices, inst[i].controller_key)
       IN  IF device # None
           THEN \E out \in SaveOutcomesOn(kvfile[p]) :
                   /\ kvfile' = [kvfile EXCEPT ![p] =
                                   setStatusAttached(kvfile[p], ConcVM, out)]
                   /\ Finish(i, busInfo(device.unitNumber,
                                  device.controllerKey - offset_from_bus_number))
           ELSE IF disk_slot = -1
           THEN /\ Finish(i, err(<<"Failed to place new disk - out of disk slots">>))
                /\ UNCHANGED kvfile
           ELSE /\ inst' = [inst EXCEPT ![i] =
                              [@ EXCEPT !.pc = "chosen", !.disk_slot = disk_slot]]
                /\ UNCHANGED <<kvfile, last>>
    /\ UNCHANGED <<image, ctrls, disks, world, faults, loop, call>>

\* lines 680-713: have the disk added and record the attachment; the
\* hypervisor faults the task when the unit is in use by now
Reconfigure(i) ==
    /\ inst[i].pc = "chosen"
    /\ LET p == ConcVol[i]
           inUse == \E k \in 1..Len(disks[ConcVM]) :
                       /\ disks[ConcVM][k].controllerKey = inst[i].controller_key
                       /\ disks[ConcVM][k].unitNumber = inst[i].disk_slot
       IN  \E disk_task \in IF inUse THEN {"error"}
                            ELSE DiskTaskOutcomes(image[p]),
              out \in SaveOutcomesOn(kvfile[p]) :
              IF disk_task = "error"
              THEN /\ Finish(i, attach_fault(p, ConcVM, kvfile[p]))
                   /\ UNCHANGED <<disks, kvfile>>
              ELSE /\ disks' = [disks EXCEPT ![ConcVM] =
                                  Append(@, Disk(inst[i].controller_key,
                                                 inst[i].disk_slot, p))]
                   /\ kvfile' = [kvfile EXCEPT ![p] =
                                   setStatusAttached(kvfile[p], ConcVM, out)]
                   /\ Finish(i, busInfo(inst[i].disk_slot, inst[i].bus_number))
    /\ UNCHANGED <<image, ctrls, world, faults, loop, call>>

NextConc ==
    \/ \E i \in Instances : ReadDevices(i)
    \/ \E i \in Instances : AddController(i)
    \/ \E i \in Instances : FindAndChoose(i)
    \/ \E i \in Instances : Reconfigure(i)

SpecConc == InitConc /\ [][NextConc]_vars

-----------------------------------------------------------------------------
(* The dispatcher: volume names, datastores, the VM of the requester *)

MAX_VOL_NAME_LEN == 100
MAX_DS_NAME_LEN == 100

Letters ==
    {"a", "b", "c", "d", "e", "f", "g", "h", "i", "j", "k", "l", "m",
     "n", "o", "p", "q", "r", "s", "t", "u", "v", "w", "x", "y", "z",
     "A", "B", "C", "D", "E", "F", "G", "H", "I", "J", "K", "L", "M",
     "N", "O", "P", "Q", "R", "S", "T", "U", "V", "W", "X", "Y", "Z"}

\* the character classes [\w\_.] and [\w\_.\-] of the pattern of line 401
VolChars == Letters \cup Digits \cup {"_", "."}
DsChars == VolChars \cup {"-"}

\* the text made of the characters of s
RECURSIVE Str(_)
Str(s) == IF s = <<>> THEN "" ELSE s[1] \o Str(Tail(s))

\* def parse_vol_name(full_vol_name): volume[@datastore], as
\* re.match(r"\A([\w\_.]+)(@([\w\_.\-]+))?$", ...) reads it; $ also matches
\* in front of a newline that ends the text
parse_vol_name(full_vol_name) ==
    LET n == Len(full_vol_name)
        body == IF n > 0 /\ full_vol_name[n] = "\n"
                THEN SubSeq(full_vol_name, 1, n - 1) ELSE full_vol_name
        stops == {i \in 1..Len(body) : body[i] \notin VolChars}
        k == IF stops = {} THEN Len(body) + 1 ELSE Min(stops)
        vol_name == SubSeq(body, 1, k - 1)
        rest == SubSeq(body, k, Len(body))
        ds_name == IF Len(rest) = 0 THEN <<>> ELSE Tail(rest)
        groups == /\ k > 1
                  /\ \/ Len(rest) = 0
                     \/ /\ rest[1] = "@"
                        /\ Len(ds_name) > 0
                        /\ \A i \in 1..Len(ds_name) : ds_name[i] \in DsChars
    IN  IF ~groups
        THEN ValidationError(<<"Invalid syntax: '", Str(full_vol_name),
                               "'.\nValid syntax is volume@datastore">>)
        ELSE IF Len(vol_name) > MAX_VOL_NAME_LEN
        THEN ValidationError(<<"Volume name is too long (max len is 100)">>)
        ELSE IF Len(ds_name) > MAX_DS_NAME_LEN
        THEN ValidationError(<<"Datastore name is too long (max len is 100)">>)
        ELSE [vol_name |-> vol_name, has_ds |-> Len(ds_name) > 0,
              ds_name |-> ds_name]

\* vmdk_utils.get_datastores(): the names of the datastores of the host
Datastores == {"ds1", "vsan1"}

\* def known_datastores()
known_datastores == Datastores

\* def get_datastore_name(config_path): the datastore the VM resides on
get_datastore_name == [vmA |-> "ds1", vmB |-> "ds1"]

\* os.path.join("/vmfs/volumes", datastore, DOCK_VOLS_DIR)
vol_dir(datastore) == "/vmfs/volumes/" \o datastore \o "/dockvols"

\* def get_vol_path(datastore): the path, or None; and the directories
\* afterwards.  dirs: the datastores that have the directory;  rc: exit
\* status of osfs-mkdir
get_vol_path(datastore, dirs, rc) ==
    IF datastore \in dirs
    THEN [path |-> [path |-> vol_dir(datastore)], dirs |-> dirs]
    ELSE IF rc = 0
    THEN [path |-> [path |-> vol_dir(datastore)],
          dirs |-> dirs \cup {datastore}]
    ELSE [path |-> None, dirs |-> dirs]

\* vmdk_utils.get_vmdk_path(path, vol_name)
get_vmdk_path(path, vol_name) == path \o "/" \o Str(vol_name) \o ".vmdk"

\* def get_full_vol_name(vmdk_name, datastore, vm_datastore), on the path
get_full_vol_name(p, datastore, vm_datastore) ==
    IF datastore = vm_datastore THEN vol_name_of[p]
    ELSE vol_name_of[p] \o "@" \o datastore

\* the datastore of a volume path
datastore_of(p) ==
    CHOOSE d \in Datastores : p = vol_dir(d) \o "/" \o basename[p]

\* def listVMDK(vm_datastore): vmdk_utils.get_volumes() finds the images
listVMDK(vm_datastore, img) ==
    [List |-> {get_full_vol_name(p, datastore_of(p), vm_datastore) :
                  p \in {q \in Vols : img[q]}}]

-----------------------------------------------------------------------------
(* The session with the hypervisor *)

\* what si.content.searchIndex.FindByUuid comes up with: the VM, nothing,
\* or an exception (the session has expired, any other fault)
SearchOutcomes == {"vm", "none", "NotAuthenticated", "fault"}

\* connectLocal(): connects, or raises
ConnectOutcomes == {"ok", "fails"}

\* an exception that leaves the function
Raise(name) == [Exception |-> name]
Raised(ret) == "Exception" \in DOMAIN ret

\* def findVmByUuid(vm_uuid): the value returned or the exception raised,
\* and the numbers of searches and of connects made
findVmByUuid(vm, first, connect, second) ==
    IF first = "vm"
    THEN [ret |-> [vm |-> vm], searches |-> 1, connects |-> 0]
    ELSE IF connect # "ok"
    THEN [ret |-> Raise("connectLocal"), searches |-> 1, connects |-> 1]
    ELSE IF second = "vm"
    THEN [ret |-> [vm |-> vm], searches |-> 2, connects |-> 1]
    ELSE IF second = "none"
    THEN [ret |-> Raise("AttributeError"), searches |-> 2, connects |-> 1]
    ELSE [ret |-> Raise(second), searches |-> 2, connects |-> 1]

\* what getTaskList (CreateFilter) comes up with
FilterOutcomes == {"ok", "NotAuthenticated", "fault"}

\* wait_for_tasks with an except clause that catches every fault of
\* getTaskList
wait_for_tasks_any_fault(first, connect, second, task) ==
    LET wait(filters, connects) ==
            [ret |-> IF task = "success" THEN None ELSE Raise("task.info.error"),
             filters |-> filters, connects |-> connects]
    IN  IF first = "ok" THEN wait(1, 0)
        ELSE IF connect # "ok"
        THEN [ret |-> Raise("connectLocal"), filters |-> 1, connects |-> 1]
        ELSE IF second = "ok" THEN wait(2, 1)
        ELSE [ret |-> Raise(second), filters |-> 2, connects |-> 1]

\* def wait_for_tasks(service_instance, tasks), for one task: None or the
\* exception raised, and the numbers of filters asked for and of connects
\*   task: the state the task ends in, "success" or "error"
wait_for_tasks(first, connect, second, task) ==
    LET wait(filters, connects) ==
            [ret |-> IF task = "success" THEN None ELSE Raise("task.info.error"),
             filters |-> filters, connects |-> connects]
    IN  IF first = "ok" THEN wait(1, 0)
        ELSE IF first # "NotAuthenticated"
        THEN [ret |-> Raise(first), filters |-> 1, connects |-> 0]
        ELSE IF connect # "ok"
        THEN [ret |-> Raise("connectLocal"), filters |-> 1, connects |-> 1]
        ELSE IF second = "ok" THEN wait(2, 1)
        ELSE [ret |-> Raise(second), filters |-> 2, connects |-> 1]

-----------------------------------------------------------------------------
(* executeRequest on the state of the host *)

\* the outcomes of the collaborators a request can get to call
AllOk ==
    [mkdir_rc |-> 0, now |-> 1, create_rc |-> 0, create_kv_ok |-> TRUE,
     out |-> "ok", backing |-> [backing |-> "flat"], mkfs_rc |-> 0,
     delete_rc |-> 0, rc |-> 0, first |-> "vm", connect |-> "ok",
     second |-> "vm", ctrl_task |-> "success", disk_task |-> "success",
     task |-> "success", handler |-> TRUE]

\* no lifecycle operation was called
NoOp == [cmd |-> "none", path |-> "none"]

\* the state of the host after an operation on vmdk_path for vm came back
\* with res: the image, the side-car, the controllers and the disks that
\* res names are as res has them
Applied(res, st, vm, vmdk_path) ==
    [ret |-> res.ret,
     reqs |-> IF "reqs" \in DOMAIN res THEN res.reqs ELSE <<>>,
     st |-> [st EXCEPT
               !.image[vmdk_path] = IF "image" \in DOMAIN res THEN res.image
                                    ELSE @,
               !.kvfile[vmdk_path] = res.file,
               !.ctrls[vm] = IF "ctrls" \in DOMAIN res THEN res.ctrls ELSE @,
               !.disks[vm] = IF "disks" \in DOMAIN res THEN res.disks ELSE @]]

\* def attachVMDK(vmdk_path, vm_uuid), on the state st of the host
attachVMDK(vmdk_path, vm, st, o) ==
    LET f == findVmByUuid(vm, o.first, o.connect, o.second)
    IN  IF Raised(f.ret)
        THEN [ret |-> f.ret, reqs |-> <<>>, st |-> st]
        ELSE Applied(disk_attach(vmdk_path, vm, st.ctrls[vm], st.disks[vm],
                                 st.kvfile[vmdk_path], o.ctrl_task,
                                 o.disk_task, o.out),
                     st, vm, vmdk_path)

\* def detachVMDK(vmdk_path, vm_uuid), on the state st of the host
detachVMDK(vmdk_path, vm, st, o) ==
    LET f == findVmByUuid(vm, o.first, o.connect, o.second)
    IN  IF Raised(f.ret)
        THEN [ret |-> f.ret, reqs |-> <<>>, st |-> st]
        ELSE Applied(disk_detach(vmdk_path, vm, st.disks[vm],
                                 st.kvfile[vmdk_path], o.task, o.handler,
                                 o.out),
                     st, vm, vmdk_path)

\* executeRequest, lines 475-486: the operation of cmd on vmdk_path
dispatch(vm, cmd, vmdk_path, vol_name, opts, st, o) ==
    CASE cmd = "get" ->
           [ret |-> getVMDK(vmdk_path, vol_name, st.image[vmdk_path]),
            st |-> st]
      [] cmd = "create" ->
           Applied(createVMDK(vmdk_path, VmName[vm], vol_name, opts,
                              st.image[vmdk_path], st.kvfile[vmdk_path],
                              o.now, o.create_rc, o.create_kv_ok, o.out,
                              o.backing, o.mkfs_rc, o.delete_rc),
                   st, vm, vmdk_path)
      [] cmd = "remove" ->
           Applied(removeVMDK(vmdk_path, st.image[vmdk_path],
                              st.kvfile[vmdk_path], o.rc),
                   st, vm, vmdk_path)
      [] cmd = "attach" -> attachVMDK(vmdk_path, vm, st, o)
      [] cmd = "detach" -> detachVMDK(vmdk_path, vm, st, o)
      [] OTHER -> [ret |-> err(<<"Unknown command:", cmd>>), st |-> st]

\* the reply res of a request, with the operation that was called for it
Called(res, op) == [ret |-> res.ret, st |-> res.st, op |-> op]

\* def executeRequest(vm_uuid, vm_name, config_path, cmd, full_vol_name, opts)
\*   st: images, side-cars, devices and volume directories of the host
\*   op: the lifecycle operation that was called, and the path it got
executeRequest(vm, cmd, full_vol_name, opts, st, o) ==
    LET vm_datastore == get_datastore_name[vm]
        parsed == parse_vol_name(full_vol_name)
        datastore == IF parsed.has_ds THEN Str(parsed.ds_name)
                     ELSE vm_datastore
        vp == get_vol_path(datastore, st.dirs, o.mkdir_rc)
        vmdk_path == get_vmdk_path(vp.path.path, parsed.vol_name)
        none(ret) == [ret |-> ret, st |-> st, op |-> NoOp]
    IN  IF cmd = "list"
        THEN [ret |-> listVMDK(vm_datastore, st.image), st |-> st,
              op |-> [cmd |-> "list", path |-> "none"]]
        ELSE IF "msg" \in DOMAIN parsed
        THEN none(err(<<"'">> \o parsed.msg \o <<"'">>))
        ELSE IF parsed.has_ds /\ datastore \notin known_datastores
        THEN none(err(<<"Invalid datastore '", datastore,
                        "'.\nKnown datastores: ", "ds1", ", ", "vsan1",
                        ".\nDefault datastore: ", vm_datastore>>))
        ELSE IF vp.path = None
        THEN none(err(<<"Failed to initialize volume path ", "None">>))
        ELSE Called(dispatch(vm, cmd, vmdk_path, Str(parsed.vol_name), opts,
                             [st EXCEPT !.dirs = vp.dirs], o),
                    IF cmd \in {"get", "create", "remove", "attach", "detach"}
                    THEN [cmd |-> cmd, path |-> vmdk_path] ELSE NoOp)

-----------------------------------------------------------------------------
(* The service loop: def handleVmciRequests(port) *)

MAX_SKIP_COUNT == 16
ECONNABORTED == 103
\* an errno of a failed receive other than ECONNABORTED (EIO)
OtherErrno == 5

\* the texts a request names its volume with
LoopNames ==
    { <<"v", "1">>,
      <<"v", "1", "@", "v", "s", "a", "n", "1">>,
      <<"v", "1", "@", "n", "o", "w", "h", "e", "r", "e">>,
      <<"v", "-", "1">> }

LoopCmds == {"create", "get", "remove", "attach", "detach", "list", "bogus"}

\* the Opts of the requests that have them: a valid size, a size without unit
LoopOpts == {SIZE :> <<"1", "g", "b">>, SIZE :> <<"1", "0", "0">>}

\* what json.loads makes of the buffers received: no JSON at all, JSON
\* that is not an object, and objects with and without the keys cmd,
\* details, Name and Opts
Buffers ==
    {[json |-> "malformed"], [json |-> "array"]}
    \cup {[json |-> "object",
           req |-> [cmd |-> cmd, details |-> [Name |-> name]]] :
             cmd \in LoopCmds, name \in LoopNames}
    \cup {[json |-> "object",
           req |-> [cmd |-> "create",
                    details |-> [Name |-> <<"v", "1">>, Opts |-> opts]]] :
             opts \in LoopOpts}
    \cup {[json |-> "object", req |-> [cmd |-> "get"]],
          [json |-> "object", req |-> [details |-> [Name |-> <<"v", "1">>]]],
          [json |-> "object",
           req |-> [cmd |-> "get", details |-> [Opts |-> EmptyDict]]]}

NoBuffer == [json |-> "none"]

\* what the iteration before did
NoIter ==
    [c |-> "none", buffer |-> NoBuffer, replies |-> 0, reply |-> None,
     op |-> NoOp, raised |-> FALSE]

\* vsi.get of the VM of the cartel: the VM's name, path and uuid, or raises
LookupOutcomes == {"ok", "raises"}

\* lines 829-841: executeRequest came back with r; its value is sent as
\* the reply, its exception leaves the loop
Replied(r) ==
    [raised |-> Raised(r.ret), replies |-> IF Raised(r.ret) THEN 0 ELSE 1,
     reply |-> r.ret, st |-> r.st, op |-> r.op]

\* lines 805-841: the iteration after a receive that succeeded.
\*   replies: the number of calls of vmci_reply;  raised: an exception left
\*   the loop
handle(vm, buffer, lookup, st, o) ==
    LET req == buffer.req
        details == req.details
        opts == IF "Opts" \in DOMAIN details THEN details.Opts ELSE EmptyDict
        raise(name) == [raised |-> TRUE, replies |-> 0, reply |-> Raise(name),
                        st |-> st, op |-> NoOp]
    IN  IF lookup # "ok" THEN raise("vsi")
        ELSE IF buffer.json = "malformed"
        THEN [raised |-> FALSE, replies |-> 1,
              reply |-> [Error |-> <<"Failed to parse json '", "<buffer>", "'.">>],
              st |-> st, op |-> NoOp]
        ELSE IF buffer.json # "object" THEN raise("TypeError")
        ELSE IF "details" \notin DOMAIN req THEN raise("KeyError")
        ELSE IF "cmd" \notin DOMAIN req THEN raise("KeyError")
        ELSE IF "Name" \notin DOMAIN details THEN raise("KeyError")
        ELSE Replied(executeRequest(vm, req.cmd, details.Name, opts, st, o))

\* the state of the host, as executeRequest works on it
HostState ==
    [image |-> image, kvfile |-> kvfile, ctrls |-> ctrls, disks |-> disks,
     dirs |-> loop.dirs]

\* the volume path a buffer resolves to for a request of vm, "none" when
\* it does not get that far
TargetOf(vm, buffer) ==
    IF /\ buffer.json = "object"
       /\ {"cmd", "details"} \subseteq DOMAIN buffer.req
       /\ "Name" \in DOMAIN buffer.req.details
       /\ buffer.req.cmd # "list"
    THEN LET parsed == parse_vol_name(buffer.req.details.Name)
             datastore == IF parsed.has_ds THEN Str(parsed.ds_name)
                          ELSE get_datastore_name[vm]
         IN  IF "msg" \in DOMAIN parsed \/ datastore \notin Datastores
             THEN "none"
             ELSE get_vmdk_path(vol_dir(datastore), parsed.vol_name)
    ELSE "none"

\* the outcomes of the collaborators when none of them fails that could
\* have worked, for the request of buffer that resolves to p
OkOutcome(vm, buffer, p) ==
    IF p = "none" THEN AllOk
    ELSE [AllOk EXCEPT
            !.rc = IF 0 \in DeleteCodes(vm, p) THEN 0 ELSE 1,
            !.disk_task = IF image[p] THEN "success" ELSE "error",
            !.out = IF buffer.req.cmd \in {"attach", "detach"}
                       /\ kvfile[p] = NoFile
                    THEN "open_fails" ELSE "ok"]

\* the outcomes in which a collaborator fails
FailingOutcomes(vm, buffer, p) ==
    LET ok == OkOutcome(vm, buffer, p)
        cmd == buffer.req.cmd
        search == {[ok EXCEPT !.first = f, !.connect = c, !.second = s] :
                     f \in SearchOutcomes \ {"vm"}, c \in ConnectOutcomes,
                     s \in SearchOutcomes}
        saves == {[ok EXCEPT !.out = s] : s \in SaveOutcomesOn(kvfile[p])}
    IN  {[ok EXCEPT !.mkdir_rc = 1]} \cup
        CASE cmd = "create" ->
               {[ok EXCEPT !.create_rc = 1], [ok EXCEPT !.backing = None]}
               \cup {[ok EXCEPT !.create_kv_ok = FALSE, !.delete_rc = d] :
                        d \in ExitCodes}
               \cup {[ok EXCEPT !.out = s, !.delete_rc = d] :
                        s \in SaveOutcomes, d \in ExitCodes}
               \cup {[ok EXCEPT !.mkfs_rc = 1, !.delete_rc = d] :
                        d \in ExitCodes}
          [] cmd = "remove" -> {[ok EXCEPT !.rc = 1]}
          [] cmd = "attach" ->
               search \cup saves \cup {[ok EXCEPT !.ctrl_task = "error"],
                                       [ok EXCEPT !.disk_task = "error"]}
          [] cmd = "detach" ->
               search \cup saves
               \cup {[ok EXCEPT !.task = "error", !.handler = h] :
                        h \in BOOLEAN}
          [] OTHER -> {}

\* of the handlings hs, one for each outcome, the one of the outcome ok
\* (f = 0 unless the lookup failed) and those that differ from it (f = 1)
Effective(hs, ok, lookup) ==
    {[h |-> x.h, f |-> IF lookup = "ok" /\ x.o = ok THEN 0 ELSE 1] :
        x \in {y \in hs : y.o = ok \/ y.h # (CHOOSE z \in hs : z.o = ok).h}}

\* what handling the request can come to, with OkOutcome and with the
\* failing outcomes
Handlings(vm, buffer, lookup) ==
    LET p == TargetOf(vm, buffer)
    IN  Effective({[o |-> o, h |-> handle(vm, buffer, lookup, HostState, o)] :
                      o \in IF lookup # "ok" \/ p = "none"
                            THEN {OkOutcome(vm, buffer, p)}
                            ELSE {OkOutcome(vm, buffer, p)}
                                 \cup FailingOutcomes(vm, buffer, p)},
                  OkOutcome(vm, buffer, p), lookup)

\* the record of the loop after an iteration
Iterated(pc, skip_count, errno, fails, served, dirs, iter) ==
    [pc |-> pc, skip_count |-> skip_count, errno |-> errno, fails |-> fails,
     served |-> served, dirs |-> dirs, iter |-> iter]

\* lines 785-803: vmci_get_one_op returns VMCI_ERROR with an errno other
\* than ECONNABORTED
ReceiveFails ==
    /\ loop.pc = "serving"
    /\ loop' = Iterated(IF loop.skip_count - 1 <= 0 THEN "fatal" ELSE "serving",
                        loop.skip_count - 1, OtherErrno, loop.fails + 1,
                        loop.served, loop.dirs,
                        [NoIter EXCEPT !.c = "VMCI_ERROR"])
    /\ UNCHANGED <<image, kvfile, ctrls, disks, world, faults, last, inst, call>>

\* lines 785-792: get_errno() is ECONNABORTED after the receive, either
\* because the receive failed with it or because a receive that succeeded
\* left the errno of an earlier failure in place
ReceiveAborted ==
    /\ loop.pc = "serving"
    /\ \E c \in {"VMCI_ERROR", "request"} :
          /\ c = "request" => loop.errno = ECONNABORTED
          /\ loop' = Iterated("serving", loop.skip_count, ECONNABORTED,
                              IF c = "request" THEN 0 ELSE loop.fails,
                              loop.served, loop.dirs, [NoIter EXCEPT !.c = c])
    /\ UNCHANGED <<image, kvfile, ctrls, disks, world, faults, last, inst, call>>

\* lines 785-841: a request is received, handled and replied to.  The
\* receive that succeeds sets errno to 0 or leaves it as it was
Serve(vm) ==
    /\ loop.pc = "serving"
    /\ loop.served < MaxServed
    /\ \E buffer \in Buffers, lookup \in LookupOutcomes :
       \E x \in Handlings(vm, buffer, lookup) :
       \E errno \in {0, loop.errno} \ {ECONNABORTED} :
          /\ faults + x.f <= MaxFaults
          /\ faults' = faults + x.f
          /\ image' = x.h.st.image
          /\ kvfile' = x.h.st.kvfile
          /\ ctrls' = x.h.st.ctrls
          /\ disks' = x.h.st.disks
          /\ loop' = Iterated(IF x.h.raised THEN "dead" ELSE "serving",
                              MAX_SKIP_COUNT, errno, 0, loop.served + 1,
                              x.h.st.dirs,
                              [c |-> "request", buffer |-> buffer,
                               replies |-> x.h.replies, reply |-> x.h.reply,
                               op |-> x.h.op, raised |-> x.h.raised])
    /\ UNCHANGED <<world, last, inst, call>>

\* the hosts the loop can start on: no volume and no volume directory yet,
\* for a VM with no SCSI controller or with one paravirtual controller; or
\* the host as an earlier run of the service left it after create and
\* attach of v1 for the VM
LoopWorld ==
    [vms |-> {"vmA"}, vols |-> {"/vmfs/volumes/ds1/dockvols/v1.vmdk",
                                "/vmfs/volumes/vsan1/dockvols/v1.vmdk"}]

FreshHost(inv) ==
    [image |-> [p \in Vols |-> FALSE],
     kvfile |-> [p \in Vols |-> NoFile],
     ctrls |-> [vm \in VMs |-> IF vm \in LoopWorld.vms THEN inv.ctrls ELSE <<>>],
     disks |-> [vm \in VMs |-> IF vm \in LoopWorld.vms THEN inv.disks ELSE <<>>],
     dirs |-> {}]

\* the host after create and attach of v1 (no options, home datastore) for
\* vmA: the image, the record that create_kv_store and setStatusAttached
\* wrote, the disk on the unit that disk_attach chose
UsedHost(inv) ==
    LET v1 == get_vmdk_path(vol_dir(get_datastore_name["vmA"]), <<"v", "1">>)
        created == create_kv_store(VmName["vmA"], NoFile, EmptyDict,
                                   AllOk.now, TRUE, "ok").file
        record == setStatusAttached(created, "vmA", "ok")
        key == attach_controller(inv.ctrls).controller_key
        disk == Disk(key, attach_slot(inv.disks, key), v1)
    IN  [image |-> [p \in Vols |-> p = v1],
         kvfile |-> [p \in Vols |-> IF p = v1 THEN record ELSE NoFile],
         ctrls |-> FreshHost(inv).ctrls,
         disks |-> [vm \in VMs |-> IF vm = "vmA" THEN Append(inv.disks, disk)
                                   ELSE <<>>],
         dirs |-> {get_datastore_name["vmA"]}]

LoopHosts ==
    {FreshHost(inv) : inv \in {i \in Inventories : Len(i.ctrls) <= 1}}
    \cup {UsedHost(inv) : inv \in {i \in Inventories : Len(i.ctrls) = 1}}

InitLoop ==
    /\ \E host \in LoopHosts :
          /\ image = host.image
          /\ kvfile = host.kvfile
          /\ ctrls = host.ctrls
          /\ disks = host.disks
          /\ loop = Iterated("serving", MAX_SKIP_COUNT, 0, 0, 0, host.dirs,
                             NoIter)
    /\ world = LoopWorld
    /\ faults = 0
    /\ last = NoRequest
    /\ inst = Idle
    /\ call = NoCall

NextLoop ==
    \/ ReceiveFails
    \/ ReceiveAborted
    \/ \E vm \in world.vms : Serve(vm)

SpecLoop == InitLoop /\ [][NextLoop]_vars

-----------------------------------------------------------------------------
(* The functions applied to arguments of their own: validate_size,         *)
(* findVmByUuid and wait_for_tasks.  The initial state holds the           *)
(* arguments, the action applies the function to them.                     *)

\* all sequences over S of length up to n
SeqsUpTo(S, n) == UNION {[1..k -> S] : k \in 0..n}

\* the size texts: up to MaxIntLen characters of a number, followed by up
\* to MaxUnitLen characters of a unit
SizeHeadChars == {"0", "1", "5", "-"}
SizeTailChars == {"k", "m", "g", "t", "b", "x", "G", "B", "0"}
Sizes ==
    {h \o t : h \in SeqsUpTo(SizeHeadChars, MaxIntLen),
              t \in SeqsUpTo(SizeTailChars, MaxUnitLen)}

\* the options of a create request: each of size, diskformat,
\* vsan-policy-name and a key that is no option is absent or has one of
\* the values below
Absent == "(absent)"
OptsOf(size, format, policy, colour) ==
    [k \in {x \in {SIZE, DISK_ALLOCATION_FORMAT, VSAN_POLICY_NAME, "colour"} :
               \/ x = SIZE /\ size # <<Absent>>
               \/ x = DISK_ALLOCATION_FORMAT /\ format # Absent
               \/ x = VSAN_POLICY_NAME /\ policy # Absent
               \/ x = "colour" /\ colour # Absent}
       |-> CASE k = SIZE -> size
             [] k = DISK_ALLOCATION_FORMAT -> format
             [] k = VSAN_POLICY_NAME -> policy
             [] OTHER -> colour]
CreateOpts ==
    {OptsOf(size, format, policy, colour) :
        size \in {<<Absent>>, <<"1", "g", "b">>, <<"1", "0", "0">>,
                  <<"0", "g", "b">>},
        format \in {Absent, "thin", "fat"},
        policy \in {Absent, "gold", "bronze"},
        colour \in {Absent, "red"}}

\* the options kept in a volume record
RecordOpts ==
    { EmptyDict,
      SIZE :> <<"1", "g", "b">>,
      (SIZE :> <<"1", "g", "b">>) @@ (DISK_ALLOCATION_FORMAT :> "thin")
         @@ (VSAN_POLICY_NAME :> "gold") }

\* the volume records: as create_kv_store makes them for vmA, and as
\* setStatusAttached leaves them
NewRecords ==
    {create_kv_store(VmName["vmA"], NoFile, opts, now, TRUE, "ok").file :
        opts \in RecordOpts, now \in Times}
Records ==
    NewRecords \cup {setStatusAttached(r, vm, "ok") : r \in NewRecords, vm \in VMs}

\* how much of the new text a write that fails leaves in the file:
\* nothing, the record short of its last piece, or the record and no padding
WriteCuts(vol_meta) ==
    {0, Len(json_dumps(vol_meta)) - 1, Len(json_dumps(vol_meta))}

\* the volume the attach and detach calls name, and the volume of the same
\* name on the other datastore
CallVol == "/vmfs/volumes/ds1/dockvols/v1.vmdk"
TwinVol == "/vmfs/volumes/vsan1/dockvols/v1.vmdk"

\* one paravirtual controller with every unit in use
FullInventory ==
    [ctrls |-> <<Controller(PV, 0)>>,
     disks |-> OwnDisks(1000, <<0, 1, 2, 3, 4, 5, 6, 8, 9, 10, 11, 12, 13, 14, 15>>)]

\* the inventory inv with the disk of the volume p on the lowest free unit
\* of its i-th controller
Holding(inv, i, p) ==
    [ctrls |-> inv.ctrls,
     disks |-> Append(inv.disks,
                      Disk(inv.ctrls[i].key,
                           attach_slot(inv.disks, inv.ctrls[i].key), p))]

\* the hardware a VM can have when it sends attach or detach for p: the
\* inventories without the volume, and the inventories with the disk of
\* the volume on any of the controllers (vm.config.hardware.device is the
\* VM's, whoever edited it)
CallInventories(p) ==
    Inventories \cup {FullInventory}
    \cup UNION {{Holding(inv, i, p) : i \in 1..Len(inv.ctrls)} :
                   inv \in Inventories}

\* the host where vmA has the hardware a and vmB the hardware b, with the
\* images of CallVol and TwinVol and the records that create_kv_store and
\* setStatusAttached wrote for them
CallHost(a, b) ==
    LET hw == [vmA |-> a, vmB |-> b]
        created == create_kv_store(VmName["vmA"], NoFile, EmptyDict,
                                   AllOk.now, TRUE, "ok").file
        holders(p) == {vm \in VMs : \E i \in 1..Len(hw[vm].disks) :
                                        hw[vm].disks[i].backing = p}
    IN  [image |-> [p \in Vols |-> p \in {CallVol, TwinVol}],
         kvfile |-> [p \in Vols |->
                        IF p \notin {CallVol, TwinVol} THEN NoFile
                        ELSE IF holders(p) = {} THEN created
                        ELSE setStatusAttached(created,
                                               CHOOSE vm \in holders(p) : TRUE,
                                               "ok")],
         ctrls |-> [vm \in VMs |-> hw[vm].ctrls],
         disks |-> [vm \in VMs |-> hw[vm].disks],
         dirs |-> Datastores]

\* vmA with or without the disk of CallVol, vmB without any SCSI device or
\* with the disk of TwinVol on a paravirtual or on an LSI Logic controller
CallHosts ==
    {CallHost(a, b) :
        a \in CallInventories(CallVol),
        b \in {[ctrls |-> <<>>, disks |-> <<>>],
               Holding([ctrls |-> <<Controller(PV, 0)>>, disks |-> <<>>],
                       1, TwinVol),
               Holding([ctrls |-> <<Controller(LSI, 0)>>, disks |-> <<>>],
                       1, TwinVol)}}

Pending(fn, args) == [fn |-> fn, args |-> args, done |-> FALSE, ret |-> None]

InitCalls ==
    /\ image = [p \in Vols |-> FALSE]
    /\ kvfile = [p \in Vols |-> NoFile]
    /\ world = LoopWorld
    /\ ctrls = [vm \in VMs |-> <<>>]
    /\ disks = [vm \in VMs |-> <<>>]
    /\ faults = 0
    /\ last = NoRequest
    /\ inst = Idle
    /\ loop = NoLoop
    /\ \/ \E size \in Sizes : call = Pending("validate_size", size)
       \/ \E opts \in CreateOpts, vmdk_path \in LoopWorld.vols,
             create_rc \in ExitCodes, create_kv_ok \in BOOLEAN,
             mkfs_rc \in ExitCodes, delete_rc \in ExitCodes :
             call = Pending("createVMDK",
                            [opts |-> opts, vmdk_path |-> vmdk_path,
                             create_rc |-> create_rc,
                             create_kv_ok |-> create_kv_ok,
                             mkfs_rc |-> mkfs_rc, delete_rc |-> delete_rc])
       \/ \E prior \in NewRecords \cup {None}, vol_meta \in Records,
             out \in SaveOutcomes :
          \E cut \in IF out = "write_fails" THEN WriteCuts(vol_meta) ELSE {0} :
             call = Pending("save",
                            [prior |-> prior, vol_meta |-> vol_meta,
                             out |-> out, cut |-> cut])
       \/ \E vm \in VMs, st \in CallHosts, ctrl_task \in TaskOutcomes,
             disk_task \in TaskOutcomes :
             call = Pending("attachVMDK",
                            [vm |-> vm, st |-> st,
                             o |-> [AllOk EXCEPT !.ctrl_task = ctrl_task,
                                                 !.disk_task = disk_task]])
       \/ \E vm \in VMs, st \in CallHosts, task \in TaskOutcomes,
             handler \in BOOLEAN :
             call = Pending("detachVMDK",
                            [vm |-> vm, st |-> st,
                             o |-> [AllOk EXCEPT !.task = task,
                                                 !.handler = handler]])
       \/ \E first \in SearchOutcomes, connect \in ConnectOutcomes,
             second \in SearchOutcomes :
             call = Pending("findVmByUuid",
                            [first |-> first, connect |-> connect,
                             second |-> second])
       \/ \E first \in FilterOutcomes, connect \in ConnectOutcomes,
             second \in FilterOutcomes, task \in TaskOutcomes :
             call = Pending("wait_for_tasks",
                            [first |-> first, connect |-> connect,
                             second |-> second, task |-> task])

Returned(ret) == call' = [call EXCEPT !.done = TRUE, !.ret = ret]

CallValidateSize ==
    /\ call.fn = "validate_size" /\ ~call.done
    /\ Returned(validate_size(call.args))
    /\ UNCHANGED <<image, kvfile, ctrls, disks, world, faults, last, inst, loop>>

\* createVMDK for a volume that does not exist, from vmA; the backing
\* file is found and the write of the record works when it is made
CallCreateVMDK ==
    /\ call.fn = "createVMDK" /\ ~call.done
    /\ Returned(createVMDK(call.args.vmdk_path, VmName["vmA"],
                           vol_name_of[call.args.vmdk_path], call.args.opts,
                           FALSE, NoFile, AllOk.now, call.args.create_rc,
                           call.args.create_kv_ok, AllOk.out, AllOk.backing,
                           call.args.mkfs_rc, call.args.delete_rc))
    /\ UNCHANGED <<image, kvfile, ctrls, disks, world, faults, last, inst, loop>>

CallFindVmByUuid ==
    /\ call.fn = "findVmByUuid" /\ ~call.done
    /\ Returned(findVmByUuid("vmA", call.args.first, call.args.connect,
                             call.args.second))
    /\ UNCHANGED <<image, kvfile, ctrls, disks, world, faults, last, inst, loop>>

CallWaitForTasks ==
    /\ call.fn = "wait_for_tasks" /\ ~call.done
    /\ Returned(wait_for_tasks(call.args.first, call.args.connect,
                               call.args.second, call.args.task))
    /\ UNCHANGED <<image, kvfile, ctrls, disks, world, faults, last, inst, loop>>

\* kv.save(vol_path, vol_meta) and then kv.load(vol_path), on a side-car
\* that holds the record prior, or that is empty as disk_ops.create_kv
\* leaves it (prior = None)
CallSave ==
    /\ call.fn = "save" /\ ~call.done
    /\ LET file == IF call.args.prior = None THEN [text |-> <<>>]
                   ELSE save_text(NoFile, call.args.prior, "ok", 0).file
           saved == save_text(file, call.args.vol_meta, call.args.out,
                              call.args.cut)
       IN  Returned([ret |-> saved.ret, before |-> load_text(file),
                     loaded |-> load_text(saved.file)])
    /\ UNCHANGED <<image, kvfile, ctrls, disks, world, faults, last, inst, loop>>

\* attachVMDK(CallVol, uuid of vm) on the host st
CallAttachVMDK ==
    /\ call.fn = "attachVMDK" /\ ~call.done
    /\ Returned(attachVMDK(CallVol, call.args.vm, call.args.st, call.args.o))
    /\ UNCHANGED <<image, kvfile, ctrls, disks, world, faults, last, inst, loop>>

\* detachVMDK(CallVol, uuid of vm) on the host st
CallDetachVMDK ==
    /\ call.fn = "detachVMDK" /\ ~call.done
    /\ Returned(detachVMDK(CallVol, call.args.vm, call.args.st, call.args.o))
    /\ UNCHANGED <<image, kvfile, ctrls, disks, world, faults, last, inst, loop>>

NextCalls ==
    \/ CallAttachVMDK
    \/ CallDetachVMDK
    \/ CallValidateSize
    \/ CallCreateVMDK
    \/ CallFindVmByUuid
    \/ CallWaitForTasks
    \/ CallSave

SpecCalls == InitCalls /\ [][NextCalls]_vars

-----------------------------------------------------------------------------
(* wait_for_tasks step by step, with the tasks running at the hypervisor.  *)
(* call holds the position of the function and what the hypervisor knows:  *)
(*   pc         where wait_for_tasks is, "returned" or "raised" at the end *)
(*   tasks      the tasks handed to wait_for_tasks                         *)
(*   state      vim.TaskInfo.State of every task                           *)
(*   reported   the state of every task in the last update handed out      *)
(*   task_list  the tasks not yet seen in the success state                *)
(*   version    the number of updates received (0: version is None)        *)
(*   pcfilter   "none", "created" or "destroyed"                           *)
(*   failed     the call to the hypervisor that raised, or "none"          *)
(*   ret        None, or the exception that left the function              *)

\* vim.TaskInfo.State
TaskStates == {"queued", "running", "success", "error"}

\* the states a task can move to
Successors(state) ==
    CASE state = "queued"  -> {"running", "success", "error"}
      [] state = "running" -> {"success", "error"}
      [] OTHER             -> {}

\* the exception raised for the task in the error state: task.info.error
TaskFault(task) == [Exception |-> "task.info.error", task |-> task]

\* the finally clause that is no finally clause: the filter is destroyed
\* only behind the loop, when nothing was raised.  The property of the
\* filter (C31) has to fail
finally_on_return(pcfilter, ret) ==
    IF pcfilter = "created" /\ ret = None THEN "destroyed" ELSE pcfilter

\* finally: if pcfilter: pcfilter.Destroy(), whatever leaves the try block
finally(pcfilter, ret) ==
    IF pcfilter = "created" THEN "destroyed" ELSE pcfilter

\* wait_for_tasks is left with ret
Left(w, ret, failed) ==
    [w EXCEPT !.pc = IF ret = None THEN "returned" ELSE "raised",
              !.ret = ret, !.failed = failed,
              !.pcfilter = finally(w.pcfilter, ret)]

InitWait ==
    /\ image = [p \in Vols |-> FALSE]
    /\ kvfile = [p \in Vols |-> NoFile]
    /\ world = LoopWorld
    /\ ctrls = [vm \in VMs |-> <<>>]
    /\ disks = [vm \in VMs |-> <<>>]
    /\ faults = 0
    /\ last = NoRequest
    /\ inst = Idle
    /\ loop = NoLoop
    /\ \E n \in 1..MaxTasks :
          call = [fn |-> "wait_for_tasks", pc |-> "getTaskList",
                  tasks |-> 1..n,
                  state |-> [t \in 1..n |-> "queued"],
                  reported |-> [t \in 1..n |-> "none"],
                  task_list |-> 1..n, version |-> 0, pcfilter |-> "none",
                  failed |-> "none", ret |-> None]

Others == <<image, kvfile, ctrls, disks, world, faults, last, inst, loop>>

\* the hypervisor works on a task
TaskProgress ==
    /\ call.fn = "wait_for_tasks"
    /\ \E t \in call.tasks : \E s \in Successors(call.state[t]) :
          call' = [call EXCEPT !.state[t] = s]
    /\ UNCHANGED Others

\* lines 915-916: pcfilter = getTaskList(property_collector, tasks)
GetTaskList ==
    /\ call.pc = "getTaskList"
    /\ \E first \in FilterOutcomes :
          call' = CASE first = "ok" ->
                         [call EXCEPT !.pc = "WaitForUpdates",
                                      !.pcfilter = "created"]
                    [] first = "NotAuthenticated" ->
                         [call EXCEPT !.pc = "connectLocal"]
                    [] OTHER -> Left(call, Raise(first), "getTaskList")
    /\ UNCHANGED Others

\* lines 917-920: connectLocal()
ConnectLocal ==
    /\ call.pc = "connectLocal"
    /\ \E connect \in ConnectOutcomes :
          call' = IF connect = "ok" THEN [call EXCEPT !.pc = "retry"]
                  ELSE Left(call, Raise("connectLocal"), "connectLocal")
    /\ UNCHANGED Others

\* line 922: the second getTaskList, outside any try block
GetTaskListAgain ==
    /\ call.pc = "retry"
    /\ \E second \in FilterOutcomes :
          call' = IF second = "ok"
                  THEN [call EXCEPT !.pc = "WaitForUpdates",
                                    !.pcfilter = "created"]
                  ELSE Left(call, Raise(second), "getTaskList")
    /\ UNCHANGED Others

\* the tasks whose state differs from what the last update said; with
\* version None the update has every task of the filter
Changed(w) ==
    IF w.version = 0 THEN w.tasks
    ELSE {t \in w.tasks : w.state[t] # w.reported[t]}

\* lines 927-949: one turn of the while loop.  WaitForUpdates blocks until
\* there is a change; the scan of the update removes the tasks seen in
\* success from task_list and raises task.info.error at the first task
\* seen in error (in the order of objectSet, which the caller does not
\* choose); the loop ends when task_list is empty
WaitForUpdates ==
    /\ call.pc = "WaitForUpdates"
    /\ Changed(call) # {}
    /\ LET change == Changed(call)
           errors == {t \in change \cap call.task_list : call.state[t] = "error"}
           left   == call.task_list
                     \ {t \in change : call.state[t] = "success"}
           seen   == [call EXCEPT !.reported = call.state,
                                  !.version = @ + 1]
       IN  IF errors # {}
           THEN \E t \in errors, before \in SUBSET (call.task_list \ left) :
                   call' = Left([seen EXCEPT !.task_list = @ \ before],
                                TaskFault(t), "none")
           ELSE IF left = {}
           THEN call' = Left([seen EXCEPT !.task_list = left], None, "none")
           ELSE call' = [seen EXCEPT !.task_list = left]
    /\ UNCHANGED Others

\* line 928: WaitForUpdates raises (the session is gone)
WaitForUpdatesRaises ==
    /\ call.pc = "WaitForUpdates"
    /\ call' = Left(call, Raise("fault"), "WaitForUpdates")
    /\ UNCHANGED Others

NextWait ==
    \/ TaskProgress
    \/ GetTaskList
    \/ ConnectLocal
    \/ GetTaskListAgain
    \/ WaitForUpdates
    \/ WaitForUpdatesRaises

\* every task goes on until it ends, wait_for_tasks runs, and
\* WaitForUpdates hands out an update when there is a change; nothing
\* makes a call to the hypervisor raise
SpecWait ==
    /\ InitWait /\ [][NextWait]_vars
    /\ WF_vars(TaskProgress)
    /\ WF_vars(GetTaskList \/ ConnectLocal \/ GetTaskListAgain)
    /\ WF_vars(WaitForUpdates)

-----------------------------------------------------------------------------

(* Vocabulary of the properties *)

\* the side-car holds a metadata record
IsRecord(file) == file \notin {NoFile, Undecodable}

\* the status the metadata record of p shows, "none" without a record
MetaStatus(p) ==
    IF IsRecord(kvfile[p]) /\ STATUS \in DOMAIN kvfile[p]
    THEN kvfile[p][STATUS] ELSE "none"

\* the record of p says: attached, attachedVMUuid = uuid of vm
MetaAttachedTo(p, vm) ==
    /\ MetaStatus(p) = ATTACHED
    /\ ATTACHED_VM_UUID \in DOMAIN kvfile[p]
    /\ kvfile[p][ATTACHED_VM_UUID] = VmUuid[vm]

\* ... and attachedVMName = name of vm
MetaOwnedBy(p, vm) ==
    /\ MetaAttachedTo(p, vm)
    /\ ATTACHED_VM_NAME \in DOMAIN kvfile[p]
    /\ kvfile[p][ATTACHED_VM_NAME] = VmName[vm]

\* the record of p says detached and names no VM
MetaCleared(p) ==
    /\ MetaStatus(p) = DETACHED
    /\ ATTACHED_VM_UUID \notin DOMAIN kvfile[p]
    /\ ATTACHED_VM_NAME \notin DOMAIN kvfile[p]

\* a reply that is neither an error nor an escaped exception
Success(ret) == "Error" \notin DOMAIN ret /\ "Exception" \notin DOMAIN ret

\* the text s is part of the error message of ret
Mentions(ret, s) ==
    IsErr(ret) /\ \E k \in 1..Len(ret.Error) : ret.Error[k] = s

\* the disks of vm that are docker volumes
VolumeDisks(vm) ==
    {i \in 1..Len(disks[vm]) : disks[vm][i].backing \in Vols}

\* the step handles the request cmd of vm for p: every request records
\* itself and its reply in last, and nothing else writes last
IsStep(cmd, vm, p) == last'.cmd = cmd /\ last'.vm = vm /\ last'.vol = p

ExistsError(p) == err(<<"File ", p, " already exists">>)
NotFoundError(p) ==
    err(<<"Volume ", vol_name_of[p], " not found (file: ", p, ")">>)

-----------------------------------------------------------------------------
(* C1: between requests, every metadata record says attached to V exactly  *)
(* when the volume's disk is on VM V, and says detached exactly when the   *)
(* disk is on no VM.                                                       *)
C1_MetadataMatchesDevices ==
    \A p \in Vols :
       IsRecord(kvfile[p]) =>
          /\ \A vm \in VMs : MetaAttachedTo(p, vm) <=> HasDisk(vm, p)
          /\ MetaStatus(p) = DETACHED <=> \A vm \in VMs : ~HasDisk(vm, p)

(* C2: two consecutive successful attach requests for the same volume and  *)
(* VM return the same Bus and Unit, the second adds no device, and after   *)
(* each of them the metadata says attached, owned by the caller.           *)
C2_AttachIdempotent ==
    [][\A vm \in VMs, p \in Vols :
          ( /\ IsStep("attach", vm, p)
            /\ last.cmd = "attach" /\ last.vm = vm /\ last.vol = p
            /\ Success(last.ret)
            /\ Success(last'.ret) )
          => /\ last'.ret = last.ret
             /\ ctrls' = ctrls
             /\ disks' = disks
             /\ MetaOwnedBy(p, vm)
             /\ MetaOwnedBy(p, vm)']_vars

(* C3: in every metadata record attachedVMUuid and attachedVMName are both *)
(* present or both absent, and present exactly when status is attached; a  *)
(* successful detach of a volume recorded as attached leaves the record    *)
(* detached with both fields absent.                                       *)
C3_FieldsPaired ==
    \A p \in Vols :
       IsRecord(kvfile[p]) =>
          /\ ATTACHED_VM_UUID \in DOMAIN kvfile[p]
                <=> ATTACHED_VM_NAME \in DOMAIN kvfile[p]
          /\ ATTACHED_VM_UUID \in DOMAIN kvfile[p]
                <=> MetaStatus(p) = ATTACHED

C3_IdentityFieldsPaired ==
    [][/\ C3_FieldsPaired'
       /\ \A vm \in VMs, p \in Vols :
             ( /\ IsStep("detach", vm, p)
               /\ MetaStatus(p) = ATTACHED
               /\ last'.ret = None )
             => MetaCleared(p)']_vars

(* C4: on every VM no disk placed by attach has unit number 7, there are   *)
(* at most 4 SCSI controllers, with pairwise distinct bus numbers in 0..3, *)
(* and no two disks share (controller_key, unit_number).                   *)
C4_HardwareWellFormed ==
    \A vm \in VMs :
       /\ \A i \in VolumeDisks(vm) : disks[vm][i].unitNumber # 7
       /\ Len(ctrls[vm]) <= 4
       /\ \A i \in 1..Len(ctrls[vm]) : ctrls[vm][i].busNumber \in 0..3
       /\ \A i, j \in 1..Len(ctrls[vm]) :
             i # j => ctrls[vm][i].busNumber # ctrls[vm][j].busNumber
       /\ \A i, j \in 1..Len(disks[vm]) :
             i # j => <<disks[vm][i].controllerKey, disks[vm][i].unitNumber>>
                      # <<disks[vm][j].controllerKey, disks[vm][j].unitNumber>>

\* a VM holds two volumes, one of them on unit 8, next to the reserved unit
C4_Witness ==
    \E vm \in VMs :
       /\ Cardinality(VolumeDisks(vm)) = 2
       /\ \E i \in VolumeDisks(vm) : disks[vm][i].unitNumber = 8


(* C5 as claimed: two attach requests for two different volumes on the     *)
(* same VM, handled concurrently by two service instances, never choose    *)
(* the same (controller_key, unit_number).                                 *)

\* instance i has chosen a unit and has not given it up
Holds(i) ==
    \/ inst[i].pc = "chosen"
    \/ inst[i].pc = "done" /\ inst[i].disk_slot # -1 /\ Success(inst[i].ret)

Pair(i) == <<inst[i].controller_key, inst[i].disk_slot>>

C5_ConcurrentChoicesDiffer ==
    \A i, j \in Instances :
       (i # j /\ Holds(i) /\ Holds(j)) => Pair(i) # Pair(j)

(* C5 amended: an attach never chooses a (controller_key, unit_number)     *)
(* held by a disk of the device list it read, so two attach requests for   *)
(* different volumes on the same VM choose different pairs whenever one    *)
(* of them read the device list after the other's disk was added.          *)
C5_ChoiceFreeInSnapshot ==
    \A i \in Instances :
       Holds(i) =>
          /\ \A k \in 1..Len(inst[i].devices) :
                <<inst[i].devices[k].controllerKey,
                  inst[i].devices[k].unitNumber>> # Pair(i)
          /\ \A j \in Instances \ {i} :
                ( /\ Holds(j)
                  /\ \E k \in 1..Len(inst[i].devices) :
                        inst[i].devices[k] =
                           Disk(inst[j].controller_key, inst[j].disk_slot,
                                ConcVol[j]) )
                => Pair(i) # Pair(j)

\* one instance has chosen after it read a device list that holds the disk
\* the other instance added
C5_Witness ==
    \E i, j \in Instances :
       /\ i # j /\ inst[i].pc = "chosen" /\ Holds(j)
       /\ \E k \in 1..Len(inst[i].devices) :
             inst[i].devices[k] =
                Disk(inst[j].controller_key, inst[j].disk_slot, ConcVol[j])

(* C6: after a create that returns success a get of the same volume        *)
(* succeeds and the metadata status is detached; a create of a volume      *)
(* whose image exists fails with "already exists" and changes neither the  *)
(* image nor the metadata; only remove makes an image disappear.           *)
C6_CreateThenGet ==
    [][/\ \A p \in Vols :
             (last'.cmd = "create" /\ last'.vol = p /\ last'.ret = None)
             => /\ getVMDK(p, vol_name_of[p], image'[p]) = None
                /\ MetaCleared(p)'
       /\ \A vm \in VMs, p \in Vols :
             (IsStep("create", vm, p) /\ image[p])
             => /\ last'.ret = ExistsError(p)
                /\ image' = image
                /\ kvfile' = kvfile
       /\ \A p \in Vols :
             (image[p] /\ ~image'[p])
             => last'.cmd = "remove" /\ last'.vol = p]_vars

\* a create was refused because the volume exists
C6_Witness ==
    /\ last.cmd = "create"
    /\ last.ret = ExistsError(last.vol)
    /\ MetaStatus(last.vol) = DETACHED

(* C7: whenever create returns an error for a volume that was absent and   *)
(* the cleanup delete, if one ran, succeeded, neither the image nor a      *)
(* metadata record is there afterwards.                                    *)
C7_CreateAtomic ==
    [][\A vm \in VMs, p \in Vols :
          (IsStep("create", vm, p) /\ ~image[p] /\ IsErr(last'.ret)) =>
          \A opts \in OptsChoices, now \in Times, create_rc \in ExitCodes,
             create_kv_ok \in BOOLEAN, out \in SaveOutcomes,
             backing \in Backings(p), mkfs_rc \in ExitCodes :
             LET r == createVMDK(p, VmName[vm], vol_name_of[p], opts,
                                 image[p], kvfile[p], now, create_rc,
                                 create_kv_ok, out, backing, mkfs_rc, 0)
             IN  ( /\ last'.ret = r.ret
                   /\ image'[p] = r.image
                   /\ kvfile'[p] = r.file )
                 => ~image'[p] /\ kvfile'[p] = NoFile]_vars

(* C8: a remove of a volume that is attached to a VM fails and leaves the  *)
(* image, the devices and the metadata as they were.                       *)
C8_RemoveAttachedFails ==
    [][\A vm \in VMs, p \in Vols :
          ( /\ IsStep("remove", vm, p)
            /\ \E o \in VMs : MetaAttachedTo(p, o) /\ HasDisk(o, p) )
          => /\ IsErr(last'.ret)
             /\ image' = image
             /\ disks' = disks
             /\ kvfile' = kvfile]_vars

C10_AttachElsewhereRefused ==
    [][\A a \in VMs, b \in VMs, p \in Vols :
          ( /\ a # b
            /\ IsStep("attach", b, p)
            /\ MetaOwnedBy(p, a) /\ HasDisk(a, p) )
          => /\ Mentions(last'.ret, VmUuid[a])
             /\ disks'[b] = disks[b]
             /\ kvfile'[p] = kvfile[p]]_vars

-----------------------------------------------------------------------------
(* C11: for every request the service loop receives, exactly one reply is  *)
(* sent before the next receive, whatever the request holds and whatever   *)
(* comes of it, and the loop goes on serving.                              *)
C11_OneReplyPerRequest ==
    loop.iter.c = "request" => loop.iter.replies = 1 /\ loop.pc = "serving"

-----------------------------------------------------------------------------
(* C12: a received buffer that is not valid JSON is answered with exactly  *)
(* one reply {Error: ...}; no lifecycle operation is called, images,       *)
(* metadata, devices and volume directories stay as they are, and the loop *)
(* goes on.                                                                *)
C12_MalformedAnswered ==
    [][(loop'.iter.c = "request" /\ loop'.iter.buffer.json = "malformed")
         => /\ loop'.iter.replies = 1
            /\ IsErr(loop'.iter.reply)
            /\ loop'.iter.op = NoOp
            /\ loop'.pc = "serving"
            /\ loop'.dirs = loop.dirs
            /\ UNCHANGED <<image, kvfile, ctrls, disks>>]_vars

-----------------------------------------------------------------------------
(* C13: a failed receive is retried up to MAX_SKIP_COUNT = 16 times in a   *)
(* row: the loop gives up only when the receive has failed and 16 retries  *)
(* after it have failed as well; and after every receive that succeeds the *)
(* retry budget is 16 again.                                               *)
C13_SixteenRetries ==
    /\ loop.pc = "fatal" => loop.fails > MAX_SKIP_COUNT
    /\ loop.iter.c = "request" => loop.skip_count = MAX_SKIP_COUNT

-----------------------------------------------------------------------------
(* The calls to the hypervisor that findVmByUuid and wait_for_tasks make   *)

IsSessionCall == call.done /\ call.fn \in {"findVmByUuid", "wait_for_tasks"}

\* the number of times the call to the hypervisor was made
Attempts == IF call.fn = "findVmByUuid" THEN call.ret.searches
            ELSE call.ret.filters

\* the first attempt came back with the VM, or with the filter
FirstWorked == call.args.first \in {"vm", "ok"}

\* the second attempt came back with the VM, or with the filter
SecondWorked == call.args.second \in {"vm", "ok"}

(* C14: a call to the hypervisor is retried only when it fails with the    *)
(* authentication-expired fault, and then exactly once after exactly one   *)
(* reconnect; after any other fault there is no reconnect and no retry     *)
(* and the fault is surfaced; a failure of the reconnect or of the retry   *)
(* is surfaced.                                                            *)
C14_RetryOnlyOnExpiry ==
    IsSessionCall =>
       /\ call.args.first = "NotAuthenticated"
             => /\ call.ret.connects = 1
                /\ Attempts = IF call.args.connect = "ok" THEN 2 ELSE 1
                /\ (call.args.connect # "ok" \/ ~SecondWorked)
                      => Raised(call.ret.ret)
       /\ call.args.first # "NotAuthenticated"
             => /\ call.ret.connects = 0
                /\ Attempts = 1
                /\ ~FirstWorked => Raised(call.ret.ret)

(* C14, as the code has it: wait_for_tasks asks for its filter again only  *)
(* after the authentication-expired fault, exactly once and after exactly  *)
(* one reconnect, and surfaces every other fault with no reconnect and no  *)
(* retry; findVmByUuid reconnects once and searches once more after any    *)
(* exception and after an empty result of its first search; in both, a     *)
(* failure of the reconnect or of the second attempt is surfaced.          *)
C14_RetryPolicy ==
    IsSessionCall =>
       LET retried == IF call.fn = "wait_for_tasks"
                      THEN call.args.first = "NotAuthenticated"
                      ELSE ~FirstWorked
       IN  /\ retried
                 => /\ call.ret.connects = 1
                    /\ Attempts = IF call.args.connect = "ok" THEN 2 ELSE 1
                    /\ (call.args.connect # "ok" \/ ~SecondWorked)
                          => Raised(call.ret.ret)
           /\ ~retried
                 => /\ call.ret.connects = 0
                    /\ Attempts = 1
                    /\ ~FirstWorked => Raised(call.ret.ret)

\* wait_for_tasks met the authentication-expired fault, reconnected, got
\* its filter at the second attempt and saw the task succeed
C14_Witness ==
    /\ call.done
    /\ call.fn = "wait_for_tasks"
    /\ call.args.first = "NotAuthenticated"
    /\ call.ret = [ret |-> None, filters |-> 2, connects |-> 1]

-----------------------------------------------------------------------------
(* C15: a detach of a volume that has no disk on the VM of the request     *)
(* returns an error; no device of any VM is reconfigured and the metadata  *)
(* records stay as they are.                                               *)
C15_DetachUnattachedFails ==
    [][\A vm \in VMs, p \in Vols :
          (IsStep("detach", vm, p) /\ ~HasDisk(vm, p))
          => /\ IsErr(last'.ret)
             /\ ctrls' = ctrls
             /\ disks' = disks
             /\ kvfile' = kvfile]_vars

-----------------------------------------------------------------------------
\* a positive integer in decimal digits followed by kb, mb, gb or tb, in
\* either case of the letters
WellFormedSize(size) ==
    LET n == Len(size)
        int == SubSeq(size, 1, n - 2)
    IN  /\ n >= 3
        /\ size[n - 1] \in {"k", "K", "m", "M", "g", "G", "t", "T"}
        /\ size[n] \in {"b", "B"}
        /\ \A i \in 1..Len(int) : int[i] \in Digits
        /\ \E i \in 1..Len(int) : int[i] # "0"

\* options with an unrecognized key, a malformed size, an unknown
\* diskformat, or a policy on a non-VSAN datastore or that does not exist
InvalidOpts(opts, vmdk_path) ==
    \/ DOMAIN opts \ {"size", "diskformat", "vsan-policy-name"} # {}
    \/ "size" \in DOMAIN opts /\ ~WellFormedSize(opts["size"])
    \/ /\ "diskformat" \in DOMAIN opts
       /\ opts["diskformat"] \notin {"zeroedthick", "thin", "eagerzeroedthick"}
    \/ /\ "vsan-policy-name" \in DOMAIN opts
       /\ \/ ~is_on_vsan(vmdk_path)
          \/ ~policy_exists(opts["vsan-policy-name"])

(* C16: a create whose options have an unrecognized key, a malformed size, *)
(* an unknown diskformat, or a vsan-policy-name on a non-VSAN datastore or *)
(* of a policy that does not exist returns an error; the image-creation    *)
(* command is not run, the volume stays absent and has no metadata record. *)
C16_InvalidOptsRejected ==
    ( /\ call.done
      /\ call.fn = "createVMDK"
      /\ InvalidOpts(call.args.opts, call.args.vmdk_path) )
    => /\ IsErr(call.ret.ret)
       /\ ~call.ret.image
       /\ call.ret.file = NoFile

-----------------------------------------------------------------------------
(* C17: validate_size accepts a size exactly when it is a positive integer *)
(* in decimal digits followed by one of kb, mb, gb, tb in either case:     *)
(* "100mb" is accepted; "100", "-5gb", "10xb" and the sizes whose integer  *)
(* part is zero or empty are rejected.                                     *)
C17_SizeAccepted ==
    (call.done /\ call.fn = "validate_size")
    => (call.ret = None <=> WellFormedSize(call.args))

-----------------------------------------------------------------------------
\* the iteration just made called the dispatcher with a request for a
\* volume (any cmd but list)
Dispatched ==
    /\ loop'.iter.c = "request"
    /\ loop'.iter.buffer.json = "object"
    /\ {"cmd", "details"} \subseteq DOMAIN loop'.iter.buffer.req
    /\ "Name" \in DOMAIN loop'.iter.buffer.req.details
    /\ loop'.iter.buffer.req.cmd # "list"
    /\ loop'.iter.reply # Raise("vsi")

\* the volume spec of that request, and the datastore it names behind "@"
SpecName == loop'.iter.buffer.req.details.Name
NamesDatastore == \E i \in 1..Len(SpecName) : SpecName[i] = "@"
NamedDatastore ==
    LET at == Min({i \in 1..Len(SpecName) : SpecName[i] = "@"})
    IN  Str(SubSeq(SpecName, at + 1, Len(SpecName)))

\* every volume outside datastore ds is after the step as it was before:
\* image, metadata record and disks on the VMs
OnlyTouches(ds) ==
    \A p \in Vols :
       datastore_of(p) # ds
       => /\ image'[p] = image[p]
          /\ kvfile'[p] = kvfile[p]
          /\ \A vm \in VMs :
                (\E i \in 1..Len(disks'[vm]) : disks'[vm][i].backing = p)
                   <=> HasDisk(vm, p)

(* C18: a request other than list acts on the volume in the home datastore *)
(* of the caller when its volume spec names no datastore, and on the       *)
(* volume in the named datastore when that is a known one; when the spec   *)
(* names an unknown datastore the reply is an error that lists the known   *)
(* datastores, no lifecycle operation is called and no volume directory    *)
(* is created.                                                             *)
C18_DatastoreResolved ==
    [][Dispatched =>
         LET ds == IF NamesDatastore THEN NamedDatastore
                   ELSE get_datastore_name["vmA"]
         IN  /\ ds \in Datastores
                  => /\ loop'.iter.op # NoOp
                           => datastore_of(loop'.iter.op.path) = ds
                     /\ OnlyTouches(ds)
             /\ ds \notin Datastores
                  => /\ IsErr(loop'.iter.reply)
                     /\ \A d \in Datastores : Mentions(loop'.iter.reply, d)
                     /\ loop'.iter.op = NoOp
                     /\ loop'.dirs = loop.dirs
                     /\ UNCHANGED <<image, kvfile, ctrls, disks>>]_vars

-----------------------------------------------------------------------------
(* C19: a request whose cmd is none of create, remove, get, list, attach,  *)
(* detach is answered with the error "Unknown command", whatever its       *)
(* volume spec and its options are, and changes no image, no metadata      *)
(* record and no device of a VM.                                           *)
C19_UnknownCommand ==
    [][( /\ Dispatched
         /\ loop'.iter.buffer.req.cmd \notin
               {"create", "remove", "get", "list", "attach", "detach"} )
         => /\ Mentions(loop'.iter.reply, "Unknown command:")
            /\ UNCHANGED <<image, kvfile, ctrls, disks>>]_vars

-----------------------------------------------------------------------------
\* the texts of the unit and bus numbers
NumberTexts == {ToString(n) : n \in 0..MaxUnit}

(* C20: every failure reply is an object whose only key is Error and whose *)
(* value is a text; every reply of an attach that succeeded is an object   *)
(* of the two keys Unit and Bus whose values are texts.                    *)
C20_ReplyShapes ==
    /\ IsErr(last.ret)
          => DOMAIN last.ret = {"Error"} /\ IsText(last.ret.Error)
    /\ (last.cmd = "attach" /\ ~IsErr(last.ret) /\ ~Raised(last.ret))
          => /\ DOMAIN last.ret = {"Unit", "Bus"}
             /\ last.ret.Unit \in NumberTexts
             /\ last.ret.Bus \in NumberTexts

-----------------------------------------------------------------------------
(* C21: save is atomic: after a save of the record R over the record P a   *)
(* load returns R when the save returned success and P when it returned    *)
(* failure, also when the save fails part-way; a load never comes up with  *)
(* an empty, partial or undecodable record.                                *)
C21_SaveAtomic ==
    (call.done /\ call.fn = "save" /\ call.args.prior # None)
    => /\ call.ret.before = call.args.prior
       /\ call.ret.loaded = IF call.ret.ret THEN call.args.vol_meta
                            ELSE call.args.prior

-----------------------------------------------------------------------------
(* C22: for every volume record, a load after a save of it that succeeded  *)
(* returns a mapping equal to the record saved, whatever padding the file  *)
(* has.                                                                    *)
C22_RoundTrip ==
    (call.done /\ call.fn = "save" /\ call.ret.ret)
    => call.ret.loaded = call.args.vol_meta

\* an attached record with three options was saved over another record and
\* loaded again
C22_Witness ==
    /\ call.done /\ call.fn = "save" /\ call.ret.ret
    /\ call.args.prior # None
    /\ call.args.prior # call.args.vol_meta
    /\ call.args.vol_meta[STATUS] = ATTACHED
    /\ DOMAIN call.args.vol_meta[VOL_OPTS]
          = {SIZE, DISK_ALLOCATION_FORMAT, VSAN_POLICY_NAME}
    /\ call.ret.loaded = call.args.vol_meta

-----------------------------------------------------------------------------
\* the step leaves the record of p a record, with created, created-by and
\* volOpts as they were and no key other than status, attachedVMUuid and
\* attachedVMName added or dropped
KeepsCreation(p) ==
    /\ IsRecord(kvfile'[p])
    /\ DOMAIN kvfile'[p] \ {STATUS, ATTACHED_VM_UUID, ATTACHED_VM_NAME}
          = DOMAIN kvfile[p] \ {STATUS, ATTACHED_VM_UUID, ATTACHED_VM_NAME}
    /\ \A k \in {CREATED, CREATED_BY, VOL_OPTS} \cap DOMAIN kvfile[p] :
          kvfile'[p][k] = kvfile[p][k]

(* C23: attach and detach change only status, attachedVMUuid and           *)
(* attachedVMName: every attach and every detach request for a volume      *)
(* that has a record leaves created, created-by and volOpts of the record  *)
(* as create wrote them.                                                   *)
C23_CreationFieldsKept ==
    [][\A vm \in VMs, p \in Vols :
          ( /\ IsStep("attach", vm, p) \/ IsStep("detach", vm, p)
            /\ IsRecord(kvfile[p]) )
          => KeepsCreation(p)]_vars

-----------------------------------------------------------------------------
\* the call of createVMDK got the image created, then failed at the
\* metadata record or at the formatting, and the removal of the image
\* failed as well
CleanupFailed ==
    /\ call.done /\ call.fn = "createVMDK"
    /\ validate_opts(call.args.opts, call.args.vmdk_path) = None
    /\ call.args.create_rc = 0
    /\ ~call.args.create_kv_ok \/ call.args.mkfs_rc # 0
    /\ call.args.delete_rc # 0

(* C24: when create fails after the image was created and the removal of   *)
(* the half-created image fails too, the error returned reports the        *)
(* original failure and the failure of the removal, for a failure of the   *)
(* metadata record as for a failure of the formatting.                     *)
C24_BothFailuresReported ==
    CleanupFailed
    => /\ \/ Mentions(call.ret.ret, "Failed to create metadata kv store for ")
          \/ Mentions(call.ret.ret, "Unable to format ")
          \/ Mentions(call.ret.ret, "Failed to format ")
       /\ \/ Mentions(call.ret.ret, " and unable to delete volume.")
          \/ Mentions(call.ret.ret, "Failed to remove ")

-----------------------------------------------------------------------------
(* C25: attach looks for an existing attachment first: when a disk bound   *)
(* to the canonical path of the volume is already on the VM, attach        *)
(* returns the unit of that disk and the bus of the controller holding it, *)
(* requests no reconfiguration and reports no capacity error, whatever     *)
(* controllers the VM has (none paravirtual, or four already)              *)

\* the bus of the controller of vm with the key controller_key, on host st
BusOf(st, vm, controller_key) ==
    st.ctrls[vm][CHOOSE i \in 1..Len(st.ctrls[vm]) :
                    st.ctrls[vm][i].key = controller_key].busNumber

\* the disks of vm bound to the path p, on host st
Bound(st, vm, p) ==
    {i \in 1..Len(st.disks[vm]) : st.disks[vm][i].backing = p}

C25_ExistingAttachmentFirst ==
    (call.done /\ call.fn = "attachVMDK") =>
        \A i \in Bound(call.args.st, call.args.vm, CallVol) :
            /\ call.ret.ret =
                  busInfo(call.args.st.disks[call.args.vm][i].unitNumber,
                          BusOf(call.args.st, call.args.vm,
                                call.args.st.disks[call.args.vm][i].controllerKey))
            /\ call.ret.reqs = <<>>

-----------------------------------------------------------------------------
(* C26: attach when the VM has no paravirtual controller: with fewer than  *)
(* four controllers the first request adds a paravirtual controller on the *)
(* lowest bus of 0..3 that no controller uses, with key 1000 + bus; a disk *)
(* addition is requested only after that addition succeeded, and on that   *)
(* controller, and it is requested when no disk of the VM matches the      *)
(* volume; with four controllers the reply is the capacity error and       *)
(* nothing is requested                                                    *)

\* an attach of CallVol came back
Attached == call.done /\ call.fn = "attachVMDK"

\* the controllers of the caller before the call
Had == call.args.st.ctrls[call.args.vm]

\* the caller has no paravirtual controller
WithoutParavirtual == \A i \in 1..Len(Had) : Had[i].type # PV

\* no disk of the caller passes for the disk of CallVol
NoneMatches ==
    findDeviceByPath(CallVol, call.args.st.disks[call.args.vm]) = None

\* the lowest bus of 0..3 without a controller
FreeBus == Min((0..3) \ {Had[i].busNumber : i \in 1..Len(Had)})

C26_ControllerPlacement ==
    (Attached /\ WithoutParavirtual) =>
        IF Len(Had) < 4
        THEN /\ Len(call.ret.reqs) \in {1, 2}
             /\ call.ret.reqs[1] = [type |-> PV, key |-> 1000 + FreeBus,
                                    busNumber |-> FreeBus]
             /\ Len(call.ret.reqs) = 2 =>
                   /\ call.args.o.ctrl_task = "success"
                   /\ call.ret.reqs[2].controllerKey = 1000 + FreeBus
                   /\ call.ret.reqs[2].backing = CallVol
             /\ (call.args.o.ctrl_task = "success" /\ NoneMatches) =>
                   Len(call.ret.reqs) = 2
             /\ call.args.o.ctrl_task = "error" => IsErr(call.ret.ret)
        ELSE /\ call.ret.reqs = <<>>
             /\ Mentions(call.ret.ret,
                         "Failed to place PVSCI adapter - out of bus slots")

\* buses 0 and 2 are taken by other controllers: the paravirtual controller
\* was added on bus 1 and the disk went to its unit 0
C26_Witness ==
    /\ Attached /\ WithoutParavirtual /\ NoneMatches
    /\ {Had[i].busNumber : i \in 1..Len(Had)} = {0, 2}
    /\ Len(call.ret.reqs) = 2
    /\ call.ret.reqs[1].key = 1001
    /\ call.ret.ret = busInfo(0, 1)
    /\ call.ret.st.ctrls[call.args.vm] = Append(Had, Controller(PV, 1))

-----------------------------------------------------------------------------
(* C27: for a new attachment (no disk of the VM is bound to the volume)    *)
(* that gets as far as the unit search, the disk addition is requested on  *)
(* the lowest unit of 0..6, 8..15 that no disk of the controller uses and  *)
(* that unit is returned; when all 15 are in use the reply is the capacity *)
(* error, no disk addition is requested and the metadata is unchanged      *)

\* the key of the controller a new disk of the caller goes to
TargetKey ==
    IF WithoutParavirtual THEN 1000 + FreeBus
    ELSE Had[Min({i \in 1..Len(Had) : Had[i].type = PV})].key

\* the units of that controller that no disk of the caller uses
FreeUnits ==
    ((0..6) \cup (8..15))
    \ {call.args.st.disks[call.args.vm][i].unitNumber :
          i \in {j \in 1..Len(call.args.st.disks[call.args.vm]) :
                    call.args.st.disks[call.args.vm][j].controllerKey = TargetKey}}

\* the disk additions among the requests of the call
DiskRequests ==
    {k \in 1..Len(call.ret.reqs) : "backing" \in DOMAIN call.ret.reqs[k]}

\* a new attachment with a controller for the disk
Placing ==
    /\ Attached
    /\ Bound(call.args.st, call.args.vm, CallVol) = {}
    /\ WithoutParavirtual =>
          Len(Had) < 4 /\ call.args.o.ctrl_task = "success"

C27_UnitPlacement ==
    Placing =>
        IF FreeUnits = {}
        THEN /\ Mentions(call.ret.ret,
                         "Failed to place new disk - out of disk slots")
             /\ DiskRequests = {}
             /\ call.ret.st.kvfile = call.args.st.kvfile
        ELSE /\ Cardinality(DiskRequests) = 1
             /\ \A k \in DiskRequests :
                   /\ call.ret.reqs[k].unitNumber = Min(FreeUnits)
                   /\ call.ret.reqs[k].controllerKey = TargetKey
             /\ call.args.o.disk_task = "success" =>
                   /\ Success(call.ret.ret)
                   /\ call.ret.ret.Unit = ToString(Min(FreeUnits))

-----------------------------------------------------------------------------
(* C28: when a reconfiguration task faults during attach or detach, the    *)
(* reply is {Error: ...} carrying the text of the fault and the metadata   *)
(* records are exactly as they were                                        *)

\* a detach of CallVol came back
Detached == call.done /\ call.fn = "detachVMDK"

\* a reconfiguration requested by the call faulted: the addition of the
\* controller, the addition of the disk, or the removal of the disk
Faulted ==
    \/ /\ Attached
       /\ \/ /\ Len(call.ret.reqs) >= 1
             /\ "busNumber" \in DOMAIN call.ret.reqs[1]
             /\ call.args.o.ctrl_task = "error"
          \/ /\ DiskRequests # {}
             /\ call.args.o.disk_task = "error"
    \/ /\ Detached
       /\ ~NoneMatches
       /\ call.args.o.task = "error"

C28_FaultReported ==
    Faulted =>
        /\ Mentions(call.ret.ret, "<fault>")
        /\ call.ret.st.kvfile = call.args.st.kvfile

-----------------------------------------------------------------------------
(* C29: attach and detach reconfigure only the VM that sent the request:   *)
(* the devices of every other VM are as before; and a detach sent by a VM  *)
(* for a volume that is attached to another VM leaves the metadata record  *)
(* of the volume as it was                                                 *)

\* CallVol is attached to a VM other than the caller, and not to the caller
AttachedElsewhere ==
    /\ Bound(call.args.st, call.args.vm, CallVol) = {}
    /\ \E vm \in VMs \ {call.args.vm} :
          /\ Bound(call.args.st, vm, CallVol) # {}
          /\ ATTACHED_VM_UUID \in DOMAIN call.args.st.kvfile[CallVol]
          /\ call.args.st.kvfile[CallVol][ATTACHED_VM_UUID] = VmUuid[vm]

C29_OnlyCallerReconfigured ==
    (Attached \/ Detached) =>
        /\ \A vm \in VMs \ {call.args.vm} :
              /\ call.ret.st.ctrls[vm] = call.args.st.ctrls[vm]
              /\ call.ret.st.disks[vm] = call.args.st.disks[vm]
        /\ (Detached /\ AttachedElsewhere) =>
              call.ret.st.kvfile[CallVol] = call.args.st.kvfile[CallVol]

-----------------------------------------------------------------------------
(* C30: a receive that reports ECONNABORTED is dropped: no reply is sent,  *)
(* no operation is called, the host is untouched, the retry budget is      *)
(* neither used nor reset and the loop goes on; and a request received     *)
(* after it is handled all the same: it is replied to (or, with the        *)
(* failures of C11, its handling raises)                                   *)

\* the step is an iteration whose receive failed with errno ECONNABORTED
AbortedReceive ==
    loop'.iter.c = "VMCI_ERROR" /\ loop'.errno = ECONNABORTED

\* the step is an iteration whose receive brought a request, after a
\* receive that reported ECONNABORTED
ReceivedAfterAbort ==
    loop.errno = ECONNABORTED /\ loop' # loop /\ loop'.iter.c = "request"

C30_AbortedReceiveDropped ==
    [][/\ AbortedReceive =>
             /\ loop'.iter.replies = 0
             /\ loop'.iter.op = NoOp
             /\ loop'.skip_count = loop.skip_count
             /\ loop'.pc = "serving"
             /\ UNCHANGED <<image, kvfile, ctrls, disks>>
       /\ ReceivedAfterAbort =>
             loop'.iter.replies = 1 \/ loop'.iter.raised]_vars

-----------------------------------------------------------------------------
(* C31: wait_for_tasks returns only after every task handed to it is in    *)
(* the success state; it raises the fault of a task as soon as an update   *)
(* shows a task in the error state; with every task ending in success or   *)
(* error it ends; the filter it created is destroyed when it ends          *)

\* wait_for_tasks has ended
Ended == call.pc \in {"returned", "raised"}

\* it raised the fault of a task
RaisedTaskFault ==
    call.pc = "raised" /\ call.ret \in {TaskFault(t) : t \in call.tasks}

\* what holds at every moment of the wait
WaitSafe ==
    /\ call.pc = "returned" =>
          \A t \in call.tasks : call.state[t] = "success"
    /\ RaisedTaskFault => call.state[call.ret.task] = "error"
    /\ call.pc = "WaitForUpdates" =>
          \A t \in call.tasks : call.reported[t] # "error"
    /\ Ended => call.pcfilter # "created"

\* as claimed: it always ends by returning or by raising the fault of a
\* task
C31_ReturnsOrRaisesTaskFault ==
    /\ []WaitSafe
    /\ <>(call.pc = "returned" \/ RaisedTaskFault)

\* it always ends, and it ends otherwise than by returning or raising the
\* fault of a task only when a call to the hypervisor (getTaskList,
\* connectLocal, WaitForUpdates) raised
C31_EndsAndDestroysFilter ==
    /\ []WaitSafe
    /\ <>Ended
    /\ [](Ended /\ call.failed = "none" =>
             call.pc = "returned" \/ RaisedTaskFault)

\* two tasks, the filter made at the second attempt, three updates or
\* more, both tasks in success, the filter destroyed
C31_Witness ==
    /\ call.fn = "wait_for_tasks"
    /\ call.pc = "returned"
    /\ call.tasks = {1, 2}
    /\ call.version >= 2
    /\ call.pcfilter = "destroyed"

====
